---- MODULE Spec2Model ----
(***************************************************************************)
(* A model of tlab.analysis: the streak-camera photoluminescence record    *)
(* (PLData: binary decode/encode, long table, horizontal and vertical      *)
(* aggregation, offset detection and correction, concurrent readers of    *)
(* the long table) and the pump-probe records (PompProbeData: CSV decode,  *)
(* offset detection and correction; PompProbePairData: the pair table).    *)
(* and of tlab.google: Credentials (new, from_file, refresh) and           *)
(* GmailAPI.get_signature.                                                 *)
(*                                                                         *)
(* Representation.                                                         *)
(*  - a byte is a number in 0..255, a bytes object a sequence of bytes;    *)
(*  - a str is the sequence of its code points;                            *)
(*  - a float32 is [s, mag]: its sign bit and its 31 magnitude bits        *)
(*    (exponent and mantissa), so that s * 2^31 + mag is its bit pattern;  *)
(*  - an unsigned integer array is [dtype, data];                          *)
(*  - a call's outcome is [exc, val]: exc = "" when it returned val,       *)
(*    otherwise the name of the exception it raised.                       *)
(* The array sizes of the format (480 x 640 samples, 1024-byte sectors)    *)
(* are scaled down; the relations between them are kept.                   *)
(***************************************************************************)
EXTENDS Integers, Sequences, FiniteSets, TLC

VARIABLES pl, ppdata, origin, result, decoded, pair, readers, dicts, credentials

vars == <<pl, ppdata, origin, result, decoded, pair, readers, dicts, credentials>>

(***************************************************************************)
(* Sizes.                                                                  *)
(***************************************************************************)
\* time_resolution (480 in the source), scaled.
TimeResolution == 2
\* wavelength_resolution (640 in the source), scaled.
WavelengthResolution == 2
\* Unused float slots of an axis block (1024 - 640 in the source), scaled.
PadFloats == 1
\* Number of times of a synthetic transient record beyond the rolling window.
ExtraTimes == 4
\* Longest free-form intensity series given to the offset detectors.
MaxLen == 5
\* Largest window and k given explicitly to the offset detectors.
MaxWindow == 3
MaxK == 2
\* Number of times one session decodes what it has just encoded.
MaxRoundTrips == 1
\* Rows of a pump-probe file beyond the detection window.
ExtraRows == 3
\* Rows of the tables of a pump-probe pair.
MaxPairLen == 2
\* Concurrent readers of one record.
MaxReaders == 2
\* Accesses to the long table by one reader.
MaxReads == 2
\* Send-as aliases in a response of the service.
MaxAliases == 3
\* Calls of refresh on one credentials object.
MaxRefreshes == 2

HeaderLen == 64
MetadataLines == 4
ShiftBack == 3
DefaultWindow == 10
DefaultK == 2
PPShiftBack == 3
PPDefaultWindow == 10
PPDefaultK == 2

Max(a, b) == IF a >= b THEN a ELSE b
Min(a, b) == IF a <= b THEN a ELSE b

\* sector_size * 600 = 2 * 480 * 640: one uint16 per sample.
IntensityBlockBytes == 2 * TimeResolution * WavelengthResolution
\* sector_size * 4: the bytes decode reads for one axis block.
ReadAxisBytes == 4 * (Max(TimeResolution, WavelengthResolution) + PadFloats)
\* 4096: the width encode pads one axis block to.
PadAxisBytes == 4 * (Max(TimeResolution, WavelengthResolution) + PadFloats)

(***************************************************************************)
(* Sequences.                                                              *)
(***************************************************************************)
Take(s, n) == SubSeq(s, 1, Min(n, Len(s)))
Drop(s, n) == SubSeq(s, Min(n, Len(s)) + 1, Len(s))

\* b"".join(ss): the parts in order, joined by halves.
RECURSIVE Concat(_)
Concat(ss) ==
  IF Len(ss) = 0 THEN <<>>
  ELSE IF Len(ss) = 1 THEN ss[1]
  ELSE LET h == Len(ss) \div 2
       IN  Concat(SubSeq(ss, 1, h)) \o Concat(SubSeq(ss, h + 1, Len(ss)))

Zeros(n) == [i \in 1..n |-> 0]

\* bytes.ljust(width, b"\x00"): pads on the right, never truncates.
Ljust(b, width) == b \o Zeros(Max(0, width - Len(b)))

RECURSIVE Pow2(_)
Pow2(n) == IF n = 0 THEN 1 ELSE 2 * Pow2(n - 1)

(***************************************************************************)
(* numpy: dtypes, tobytes, frombuffer, astype.                             *)
(***************************************************************************)
\* One little-endian uint16.
U16Bytes(v) == <<v % 256, (v \div 256) % 256>>
U16FromBytes(b0, b1) == b0 + (256 * b1)

\* One little-endian float32.
F32Bytes(f) ==
  <<f.mag % 256, (f.mag \div 256) % 256, (f.mag \div 65536) % 256,
    (f.mag \div 16777216) + (128 * f.s)>>
F32FromBytes(b0, b1, b2, b3) ==
  [s |-> b3 \div 128, mag |-> ((b3 % 128) * 16777216) + (b2 * 65536) + (b1 * 256) + b0]

\* ndarray.astype(np.uint16): unsafe cast, the value modulo 2^16.
AsTypeU16(a) == [dtype |-> "uint16", data |-> [i \in 1..Len(a.data) |-> a.data[i] % 65536]]

\* ndarray.tobytes("C") of an array whose dtype is uint16.
ToBytesU16(a) == Concat([i \in 1..Len(a.data) |-> U16Bytes(a.data[i])])
\* ndarray.tobytes("C") of a float32 array.
ToBytesF32(a) == Concat([i \in 1..Len(a) |-> F32Bytes(a[i])])

\* np.frombuffer(b, dtype=np.uint16)
FromBufferU16(b) ==
  IF Len(b) % 2 # 0 THEN [exc |-> "ValueError", val |-> [dtype |-> "uint16", data |-> <<>>]]
  ELSE [exc |-> "",
        val |-> [dtype |-> "uint16",
                 data |-> [i \in 1..(Len(b) \div 2) |-> U16FromBytes(b[2*i - 1], b[2*i])]]]

\* np.frombuffer(b, dtype=np.float32)
FromBufferF32(b) ==
  IF Len(b) % 4 # 0 THEN [exc |-> "ValueError", val |-> <<>>]
  ELSE [exc |-> "",
        val |-> [i \in 1..(Len(b) \div 4) |->
                   F32FromBytes(b[4*i - 3], b[4*i - 2], b[4*i - 1], b[4*i])]]

(***************************************************************************)
(* str <-> bytes, UTF-8.                                                   *)
(***************************************************************************)
IsCont(x) == x >= 128 /\ x <= 191

\* The code point starting at b[i]: n bytes long, n = 0 when b[i..] is invalid.
Utf8Step(b, i) ==
  LET b0 == b[i]
      Has(k) == i + k <= Len(b)
      C(k) == b[i + k] - 128
  IN  IF b0 < 128 THEN [n |-> 1, cp |-> b0]
      ELSE IF /\ b0 >= 194 /\ b0 <= 223 /\ Has(1) /\ IsCont(b[i+1])
           THEN [n |-> 2, cp |-> ((b0 - 192) * 64) + C(1)]
      ELSE IF /\ b0 >= 224 /\ b0 <= 239 /\ Has(2)
              /\ IsCont(b[i+1]) /\ IsCont(b[i+2])
              /\ (b0 = 224 => b[i+1] >= 160)
              /\ (b0 = 237 => b[i+1] <= 159)
           THEN [n |-> 3, cp |-> ((b0 - 224) * 4096) + (C(1) * 64) + C(2)]
      ELSE IF /\ b0 >= 240 /\ b0 <= 244 /\ Has(3)
              /\ IsCont(b[i+1]) /\ IsCont(b[i+2]) /\ IsCont(b[i+3])
              /\ (b0 = 240 => b[i+1] >= 144)
              /\ (b0 = 244 => b[i+1] <= 143)
           THEN [n |-> 4, cp |-> ((b0 - 240) * 262144) + (C(1) * 4096) + (C(2) * 64) + C(3)]
      ELSE [n |-> 0, cp |-> 0]

RECURSIVE Utf8DecodeFrom(_, _)
Utf8DecodeFrom(b, i) ==
  IF i > Len(b) THEN [exc |-> "", val |-> <<>>]
  ELSE LET st == Utf8Step(b, i)
       IN  IF st.n = 0 THEN [exc |-> "UnicodeDecodeError", val |-> <<>>]
           ELSE LET rest == Utf8DecodeFrom(b, i + st.n)
                IN  IF rest.exc # "" THEN rest
                    ELSE [exc |-> "", val |-> <<st.cp>> \o rest.val]

\* bytes.decode("UTF-8").  Every byte that is not a continuation byte starts
\* a code point, so the string is decoded in two parts that meet at such a
\* byte, the one nearest to the middle; a string with no such byte after the
\* first is one code point or malformed.
RECURSIVE Utf8Decode(_)
Utf8Decode(b) ==
  LET cuts == {j \in 2..Len(b) : ~IsCont(b[j])}
      mid  == (Len(b) \div 2) + 1
      Dist(j) == IF j >= mid THEN j - mid ELSE mid - j
      Join(left, right) ==
        IF left.exc # "" THEN left
        ELSE IF right.exc # "" THEN right
        ELSE [exc |-> "", val |-> left.val \o right.val]
      PartsAt(m) == Join(Utf8Decode(SubSeq(b, 1, m - 1)),
                         Utf8Decode(SubSeq(b, m, Len(b))))
  IN  IF cuts = {} THEN Utf8DecodeFrom(b, 1)
      ELSE PartsAt(CHOOSE m \in cuts : \A m2 \in cuts : Dist(m) <= Dist(m2))

Utf8EncodeChar(cp) ==
  IF cp < 128 THEN <<cp>>
  ELSE IF cp < 2048 THEN <<192 + (cp \div 64), 128 + (cp % 64)>>
  ELSE IF cp < 65536
       THEN <<224 + (cp \div 4096), 128 + ((cp \div 64) % 64), 128 + (cp % 64)>>
  ELSE <<240 + (cp \div 262144), 128 + ((cp \div 4096) % 64),
         128 + ((cp \div 64) % 64), 128 + (cp % 64)>>

IsSurrogate(cp) == cp >= 55296 /\ cp <= 57343

\* str.encode("UTF-8")
Utf8Encode(s) ==
  IF \E i \in 1..Len(s) : IsSurrogate(s[i])
  THEN [exc |-> "UnicodeEncodeError", val |-> <<>>]
  ELSE [exc |-> "", val |-> Concat([i \in 1..Len(s) |-> Utf8EncodeChar(s[i])])]

(***************************************************************************)
(* io.BufferedIOBase: a stream is its data and its position.               *)
(***************************************************************************)
Open(data) == [data |-> data, pos |-> 0]

\* file.read(n): at most n bytes, fewer at the end of the stream.
Read(f, n) ==
  LET k == Min(n, Len(f.data) - f.pos)
  IN  [bytes |-> SubSeq(f.data, f.pos + 1, f.pos + k),
       file  |-> [data |-> f.data, pos |-> f.pos + k]]

\* file.readline(): through the next b"\n", or to the end of the stream.
ReadLine(f) ==
  LET nl == {j \in (f.pos + 1)..Len(f.data) : f.data[j] = 10}
      end == IF nl = {} THEN Len(f.data)
             ELSE CHOOSE j \in nl : \A j2 \in nl : j <= j2
  IN  [bytes |-> SubSeq(f.data, f.pos + 1, end),
       file  |-> [data |-> f.data, pos |-> end]]

\* [file.readline() for _ in range(n)]: call k starts where call k - 1
\* stopped, which is after the (k - 1)-th b"\n" from the position of the
\* stream, or at the end of the stream when there are fewer.
ReadLines(f, n) ==
  LET nl == {j \in (f.pos + 1)..Len(f.data) : f.data[j] = 10}
      After(k) == IF k = 0 THEN f.pos
                  ELSE IF k > Cardinality(nl) THEN Len(f.data)
                  ELSE CHOOSE j \in nl : Cardinality({j2 \in nl : j2 <= j}) = k
      Call(k) == ReadLine([data |-> f.data, pos |-> After(k - 1)])
  IN  [lines |-> [k \in 1..n |-> Call(k).bytes],
       file  |-> IF n = 0 THEN f ELSE Call(n).file]

(***************************************************************************)
(* PLData.                                                                 *)
(***************************************************************************)
DefaultHeader ==
  <<73, 77, 205, 1, 128, 2, 224, 1, 0, 0, 0, 0, 2, 0, 0, 0>> \o Zeros(48)

NoTable == [computed |-> FALSE, rows |-> <<>>]

\* PLData(intensity, wavelength, time, header, metadata); df is the slot of
\* the cached property, empty until first read.
PLData(intensity, wavelength, time, header, metadata) ==
  [intensity |-> intensity, wavelength |-> wavelength, time |-> time,
   header |-> header, metadata |-> metadata, df |-> NoTable]

NoPLData == <<>>

\* [b.decode("UTF-8") for b in metadata]
DecodeAll(lines) ==
  LET d(j) == Utf8Decode(lines[j])
      bad == {j \in 1..Len(lines) : d(j).exc # ""}
  IN  IF bad # {}
      THEN [exc |-> d(CHOOSE j \in bad : \A j2 \in bad : j <= j2).exc, val |-> <<>>]
      ELSE [exc |-> "", val |-> [j \in 1..Len(lines) |-> d(j).val]]

Raise(e) == [exc |-> e, val |-> NoPLData]

\* PLData._from_raw_buffer
FromRawBuffer(file) ==
  LET h == Read(file, HeaderLen)
      m == ReadLines(h.file, MetadataLines)
      i == Read(m.file, IntensityBlockBytes)
      intensity == FromBufferU16(i.bytes)
      w == Read(i.file, ReadAxisBytes)
      wavelength == FromBufferF32(w.bytes)
      t == Read(w.file, ReadAxisBytes)
      time == FromBufferF32(t.bytes)
      metadata == DecodeAll(m.lines)
  IN  IF intensity.exc # "" THEN Raise(intensity.exc)
      ELSE IF wavelength.exc # "" THEN Raise(wavelength.exc)
      ELSE IF time.exc # "" THEN Raise(time.exc)
      ELSE IF metadata.exc # "" THEN Raise(metadata.exc)
      ELSE [exc |-> "",
            val |-> <<PLData(intensity.val,
                            Take(wavelength.val, WavelengthResolution),
                            Take(time.val, TimeResolution),
                            h.bytes, metadata.val)>>]

\* "".join(self.metadata)
JoinStr(metadata) == Concat(metadata)

\* to_raw_binary without the padding of the axis blocks.
ToRawBinaryUnpadded(self) ==
  LET meta == Utf8Encode(JoinStr(self.metadata))
  IN  IF meta.exc # "" THEN [exc |-> meta.exc, val |-> <<>>]
      ELSE [exc |-> "",
            val |-> self.header
                    \o meta.val
                    \o ToBytesU16(AsTypeU16(self.intensity))
                    \o ToBytesF32(self.wavelength)
                    \o ToBytesF32(self.time)]

\* PLData.to_raw_binary
ToRawBinary(self) ==
  LET meta == Utf8Encode(JoinStr(self.metadata))
  IN  IF meta.exc # "" THEN [exc |-> meta.exc, val |-> <<>>]
      ELSE [exc |-> "",
            val |-> self.header
                    \o meta.val
                    \o ToBytesU16(AsTypeU16(self.intensity))
                    \o Ljust(ToBytesF32(self.wavelength), PadAxisBytes)
                    \o Ljust(ToBytesF32(self.time), PadAxisBytes)]

(***************************************************************************)
(* float32 values: order, and arithmetic on the integer-valued ones.       *)
(***************************************************************************)
\* mag above the bits of +inf (0x7F800000) is a NaN.
IsNaN(f) == f.mag > 2139095040
\* Sign-magnitude bits as a signed number: monotone in the float's value.
F32Key(f) == IF f.s = 1 THEN 0 - f.mag ELSE f.mag
F32Le(a, b) == ~IsNaN(a) /\ ~IsNaN(b) /\ F32Key(a) <= F32Key(b)
F32Eq(a, b) == ~IsNaN(a) /\ ~IsNaN(b) /\ F32Key(a) = F32Key(b)

RECURSIVE Log2(_)
Log2(a) == IF a <= 1 THEN 0 ELSE 1 + Log2(a \div 2)

\* The float32 whose value is the integer v, |v| < 2^24.
IntToF32(v) ==
  LET a == IF v < 0 THEN 0 - v ELSE v
      e == Log2(a)
  IN  IF a = 0 THEN [s |-> 0, mag |-> 0]
      ELSE [s |-> IF v < 0 THEN 1 ELSE 0,
            mag |-> ((127 + e) * 8388608) + ((a - Pow2(e)) * Pow2(23 - e))]

\* The value of an integer-valued float32 of magnitude < 2^24.
F32ToInt(f) ==
  LET e == f.mag \div 8388608
      m == f.mag % 8388608
      a == IF f.mag = 0 THEN 0 ELSE (8388608 + m) \div Pow2(150 - e)
  IN  IF f.s = 1 THEN 0 - a ELSE a

\* a - b in float32; exact on integer values of magnitude < 2^24.
F32Sub(a, b) == IntToF32(F32ToInt(a) - F32ToInt(b))

(***************************************************************************)
(* Rational numbers [num, den] in lowest terms, den > 0: the float64       *)
(* results of a mean, with rounding left out.                              *)
(***************************************************************************)
RECURSIVE GCD(_, _)
GCD(a, b) == IF b = 0 THEN a ELSE GCD(b, a % b)

Abs(x) == IF x < 0 THEN 0 - x ELSE x

Rat(n, d) ==
  LET g == GCD(Abs(n), d)
  IN  [num |-> n \div g, den |-> d \div g]

RatOfInt(n) == [num |-> n, den |-> 1]

\* a - b
RatSub(a, b) == Rat((a.num * b.den) - (b.num * a.den), a.den * b.den)

RECURSIVE SumSeq(_)
SumSeq(s) == IF s = <<>> THEN 0 ELSE Head(s) + SumSeq(Tail(s))

(***************************************************************************)
(* PLData.df: the long table, one row per sample.                          *)
(***************************************************************************)
\* np.repeat mistaken for np.tile.
RepeatTiled(a, n) == Concat([j \in 1..n |-> a])

\* np.repeat(a, n): each element n times, contiguously.
Repeat(a, n) == Concat([j \in 1..Len(a) |-> [c \in 1..n |-> a[j]]])
\* np.tile(a, n): the whole array n times.
Tile(a, n) == Concat([j \in 1..n |-> a])

\* pd.DataFrame(dict(time=..., wavelength=..., intensity=...)): the columns
\* must have one length.
DataFrame(time, wavelength, intensity) ==
  IF Len(time) # Len(intensity) \/ Len(wavelength) # Len(intensity)
  THEN [exc |-> "ValueError", val |-> <<>>]
  ELSE [exc |-> "",
        val |-> [i \in 1..Len(intensity) |->
                   [time |-> time[i], wavelength |-> wavelength[i],
                    intensity |-> intensity[i]]]]

\* The body of df with np.repeat and np.tile exchanged.
ComputeDfExchanged(self) ==
  DataFrame(Tile(self.time, Len(self.wavelength)),
            Repeat(self.wavelength, Len(self.time)),
            self.intensity.data)

\* The body of the cached property PLData.df.
ComputeDf(self) ==
  DataFrame(Repeat(self.time, Len(self.wavelength)),
            Tile(self.wavelength, Len(self.time)),
            self.intensity.data)

\* Reading self.df: the cached table when there is one, else the computed
\* one, which is then cached (nothing is cached when the computation raises).
ReadDf(self) ==
  IF self.df.computed THEN [exc |-> "", val |-> self.df.rows, self |-> self]
  ELSE LET d == ComputeDf(self)
       IN  IF d.exc # "" THEN [exc |-> d.exc, val |-> <<>>, self |-> self]
           ELSE [exc |-> "", val |-> d.val,
                 self |-> [self EXCEPT !.df = [computed |-> TRUE, rows |-> d.val]]]

(***************************************************************************)
(* pandas: min/max, between, groupby(...).sum().                           *)
(***************************************************************************)
NaN == [s |-> 0, mag |-> 2143289344]

Column(rows, col) == [i \in 1..Len(rows) |-> rows[i][col]]

\* Series.min(): NaN is skipped; NaN when nothing is left.
SeriesMin(col) ==
  LET S == {i \in 1..Len(col) : ~IsNaN(col[i])}
  IN  IF S = {} THEN NaN
      ELSE col[CHOOSE i \in S : \A j \in S : F32Le(col[i], col[j])]
\* Series.max()
SeriesMax(col) ==
  LET S == {i \in 1..Len(col) : ~IsNaN(col[i])}
  IN  IF S = {} THEN NaN
      ELSE col[CHOOSE i \in S : \A j \in S : F32Le(col[j], col[i])]

\* between with both ends excluded.
BetweenExclusive(x, lo, hi) ==
  F32Le(lo, x) /\ F32Le(x, hi) /\ ~F32Eq(lo, x) /\ ~F32Eq(x, hi)

\* Series.between(lo, hi): inclusive at both ends.
Between(x, lo, hi) == F32Le(lo, x) /\ F32Le(x, hi)

\* The keys of a set of numbers, ascending.
RECURSIVE SortedSeq(_)
SortedSeq(S) ==
  IF S = {} THEN <<>>
  ELSE LET m == CHOOSE x \in S : \A y \in S : x <= y
       IN  <<m>> \o SortedSeq(S \ {m})

\* rows.groupby(key).sum().drop(other, axis=1).reset_index(): one row per
\* distinct key (NaN keys dropped), keys ascending, intensity summed.
GroupSum(rows, key) ==
  LET idx == {i \in 1..Len(rows) : ~IsNaN(rows[i][key])}
      keys == SortedSeq({F32Key(rows[i][key]) : i \in idx})
      Members(k) == SelectSeq([i \in 1..Len(rows) |-> i],
                              LAMBDA i : i \in idx /\ F32Key(rows[i][key]) = k)
  IN  [g \in 1..Len(keys) |->
         LET mem == Members(keys[g])
         IN  [key |-> rows[mem[1]][key],
              intensity |-> SumSeq([j \in 1..Len(mem) |-> rows[mem[j]].intensity])]]

NoRange == [given |-> FALSE, lo |-> NaN, hi |-> NaN]
Range(lo, hi) == [given |-> TRUE, lo |-> lo, hi |-> hi]

\* PLData.to_hdf
ToHdf(self, time_range) ==
  LET d == ReadDf(self)
      time == Column(d.val, "time")
      r == IF time_range.given THEN time_range
           ELSE Range(SeriesMin(time), SeriesMax(time))
      sel == SelectSeq(d.val, LAMBDA row : Between(row.time, r.lo, r.hi))
      g == GroupSum(sel, "wavelength")
  IN  IF d.exc # "" THEN [exc |-> d.exc, val |-> <<>>, self |-> d.self]
      ELSE [exc |-> "",
            val |-> [i \in 1..Len(g) |->
                       [wavelength |-> g[i].key, intensity |-> g[i].intensity]],
            self |-> d.self]

(***************************************************************************)
(* Offset detection.                                                       *)
(***************************************************************************)
\* The comparison with >= in place of >.
AboveRollingOrEqual(intensity, i, window, k) ==
  /\ window >= 2
  /\ i >= window
  /\ LET win == SubSeq(intensity, i - window + 1, i)
         S == SumSeq(win)
         Q == SumSeq([j \in 1..window |-> win[j] * win[j]])
         d == (window * intensity[i]) - S
     IN  /\ d >= 0
         /\ d * d * (window - 1) >= k * k * window * ((window * Q) - (S * S))

\* The comparison with k * std alone, the rolling mean left out.
AboveRollingStdOnly(intensity, i, window, k) ==
  /\ window >= 2
  /\ i >= window
  /\ LET win == SubSeq(intensity, i - window + 1, i)
         S == SumSeq(win)
         Q == SumSeq([j \in 1..window |-> win[j] * win[j]])
         x == intensity[i]
     IN  /\ x > 0
         /\ x * x * window * (window - 1) > k * k * ((window * Q) - (S * S))

\* (intensity > mean + k * std)[i] for the rolling window ending at the
\* 1-based position i.  mean and std are NaN (the comparison False) while
\* the window is incomplete, and std (ddof = 1) is NaN for window = 1.
\* With S and Q the sum and the sum of squares over the window, w = window:
\*   mean = S / w,  std^2 = (w * Q - S^2) / (w * (w - 1)),
\* so for k >= 0 the comparison is  w * x - S > 0  and
\*   (w * x - S)^2 * (w - 1) > k^2 * w * (w * Q - S^2).
AboveRolling(intensity, i, window, k) ==
  /\ window >= 2
  /\ i >= window
  /\ LET win == SubSeq(intensity, i - window + 1, i)
         S == SumSeq(win)
         Q == SumSeq([j \in 1..window |-> win[j] * win[j]])
         d == (window * intensity[i]) - S
     IN  /\ d > 0
         /\ d * d * (window - 1) > k * k * window * ((window * Q) - (S * S))

\* The shift made one position longer.
ShiftFillOneMore(flags, n) ==
  [i \in 1..Len(flags) |-> IF i + n + 1 <= Len(flags) THEN flags[i + n + 1] ELSE FALSE]

\* Series.shift(-n).fillna(False): position i takes the flag of i + n, the
\* last n positions take False.
ShiftFill(flags, n) ==
  [i \in 1..Len(flags) |-> IF i + n <= Len(flags) THEN flags[i + n] ELSE FALSE]

\* The label 0 in place of the error when no position is True.
FirstLabelOrZero(mask) ==
  LET T == {i \in 1..Len(mask) : mask[i]}
  IN  [exc |-> "", val |-> IF T = {} THEN 0 ELSE (CHOOSE i \in T : \A j \in T : i <= j) - 1]

\* index[mask][0] of a RangeIndex: the label (0-based) of the first True.
FirstLabel(mask) ==
  LET T == {i \in 1..Len(mask) : mask[i]}
  IN  IF T = {} THEN [exc |-> "IndexError", val |-> 0]
      ELSE [exc |-> "", val |-> (CHOOSE i \in T : \A j \in T : i <= j) - 1]

\* _get_offset_index_for_vdf(vdf, window, k), on the intensity column.
GetOffsetIndexForVdf(intensity, window, k) ==
  LET flags == [i \in 1..Len(intensity) |-> AboveRolling(intensity, i, window, k)]
  IN  FirstLabel(ShiftFill(flags, ShiftBack))

\* The first sample in place of the fitted constant.
PolyfitFirst(y) ==
  IF Len(y) = 0 THEN [exc |-> "TypeError", val |-> RatOfInt(0)]
  ELSE [exc |-> "", val |-> RatOfInt(y[1])]

\* np.polyfit(x, y, deg=0): the constant fitted to y, its mean.
Polyfit0(y) ==
  IF Len(y) = 0 THEN [exc |-> "TypeError", val |-> RatOfInt(0)]
  ELSE [exc |-> "", val |-> Rat(SumSeq(y), Len(y))]

\* to_vdf subtracting the first time in place of the time at the offset index.
ToVdfFromFirstTime(self, wavelength_range, auto_time_offset, auto_intensity_offset) ==
  LET d == ReadDf(self)
      wavelength == Column(d.val, "wavelength")
      r == IF wavelength_range.given THEN wavelength_range
           ELSE Range(SeriesMin(wavelength), SeriesMax(wavelength))
      sel == SelectSeq(d.val, LAMBDA row : Between(row.wavelength, r.lo, r.hi))
      g == GroupSum(sel, "time")
      intensity == [i \in 1..Len(g) |-> g[i].intensity]
      offset_index == GetOffsetIndexForVdf(intensity, DefaultWindow, DefaultK)
      time_offset == g[1].key
      time == [i \in 1..Len(g) |->
                 IF auto_time_offset THEN F32Sub(g[i].key, time_offset)
                 ELSE g[i].key]
      intensity_offset == Polyfit0(Take(intensity, offset_index.val))
      out == [i \in 1..Len(g) |->
                IF auto_intensity_offset
                THEN RatSub(RatOfInt(intensity[i]), intensity_offset.val)
                ELSE RatOfInt(intensity[i])]
  IN  IF d.exc # "" THEN [exc |-> d.exc, val |-> <<>>, self |-> d.self]
      ELSE IF offset_index.exc # ""
           THEN [exc |-> offset_index.exc, val |-> <<>>, self |-> d.self]
      ELSE IF auto_intensity_offset /\ intensity_offset.exc # ""
           THEN [exc |-> intensity_offset.exc, val |-> <<>>, self |-> d.self]
      ELSE [exc |-> "",
            val |-> [i \in 1..Len(g) |-> [time |-> time[i], intensity |-> out[i]]],
            self |-> d.self]

\* to_vdf shifting the times of the cached long table in place.
ToVdfInPlace(self, wavelength_range, auto_time_offset, auto_intensity_offset) ==
  LET r == ToVdfFromFirstTime(self, wavelength_range, auto_time_offset, auto_intensity_offset)
  IN  [r EXCEPT !.self.df.rows =
         [j \in 1..Len(@) |-> [@[j] EXCEPT !.time = F32Sub(@, r.self.df.rows[1].time)]]]

\* PLData.to_vdf
ToVdf(self, wavelength_range, auto_time_offset, auto_intensity_offset) ==
  LET d == ReadDf(self)
      wavelength == Column(d.val, "wavelength")
      r == IF wavelength_range.given THEN wavelength_range
           ELSE Range(SeriesMin(wavelength), SeriesMax(wavelength))
      sel == SelectSeq(d.val, LAMBDA row : Between(row.wavelength, r.lo, r.hi))
      g == GroupSum(sel, "time")
      intensity == [i \in 1..Len(g) |-> g[i].intensity]
      offset_index == GetOffsetIndexForVdf(intensity, DefaultWindow, DefaultK)
      time_offset == g[offset_index.val + 1].key
      time == [i \in 1..Len(g) |->
                 IF auto_time_offset THEN F32Sub(g[i].key, time_offset)
                 ELSE g[i].key]
      intensity_offset == Polyfit0(Take(intensity, offset_index.val))
      out == [i \in 1..Len(g) |->
                IF auto_intensity_offset
                THEN RatSub(RatOfInt(intensity[i]), intensity_offset.val)
                ELSE RatOfInt(intensity[i])]
  IN  IF d.exc # "" THEN [exc |-> d.exc, val |-> <<>>, self |-> d.self]
      ELSE IF offset_index.exc # ""
           THEN [exc |-> offset_index.exc, val |-> <<>>, self |-> d.self]
      ELSE IF auto_intensity_offset /\ intensity_offset.exc # ""
           THEN [exc |-> intensity_offset.exc, val |-> <<>>, self |-> d.self]
      ELSE [exc |-> "",
            val |-> [i \in 1..Len(g) |-> [time |-> time[i], intensity |-> out[i]]],
            self |-> d.self]

(***************************************************************************)
(* PompProbeData.                                                          *)
(***************************************************************************)
NoPompProbeData == <<>>
NoReaders == <<>>

\* PompProbeData(df)
PompProbeData(df) == [df |-> df]

\* get_offset_index without the backward shift.
GetOffsetIndexUnshifted(self, window, k) ==
  LET intensity == Column(self.df, "intensity")
      flags == [i \in 1..Len(intensity) |-> AboveRolling(intensity, i, window, k)]
  IN  FirstLabel(flags)

\* PompProbeData.get_offset_index(window, k)
GetOffsetIndex(self, window, k) ==
  LET intensity == Column(self.df, "intensity")
      flags == [i \in 1..Len(intensity) |-> AboveRolling(intensity, i, window, k)]
  IN  FirstLabel(ShiftFill(flags, PPShiftBack))

(***************************************************************************)
(* float64 values of the pump-probe tables: a fraction [num, den] in       *)
(* lowest terms, or, with den = 0, a non-finite value: num = 1 is +inf,    *)
(* num = -1 is -inf and num = 0 is NaN.  Rounding is left out.             *)
(***************************************************************************)
FNaN == [num |-> 0, den |-> 0]
Sign(x) == IF x > 0 THEN 1 ELSE IF x < 0 THEN 0 - 1 ELSE 0
IsFinite(a) == a.den # 0

\* a + b
FAdd(a, b) ==
  IF IsFinite(a) /\ IsFinite(b)
  THEN Rat((a.num * b.den) + (b.num * a.den), a.den * b.den)
  ELSE IF a = FNaN \/ b = FNaN THEN FNaN
  ELSE IF ~IsFinite(a) /\ ~IsFinite(b) /\ a # b THEN FNaN
  ELSE IF IsFinite(a) THEN b ELSE a

\* -a
FNeg(a) == [num |-> 0 - a.num, den |-> a.den]

\* a - b
FSub(a, b) == FAdd(a, FNeg(b))

\* a * b
FMul(a, b) ==
  IF IsFinite(a) /\ IsFinite(b) THEN Rat(a.num * b.num, a.den * b.den)
  ELSE IF a = FNaN \/ b = FNaN \/ a.num = 0 \/ b.num = 0 THEN FNaN
  ELSE [num |-> Sign(a.num) * Sign(b.num), den |-> 0]

\* a / b: a division by zero raises nothing, it gives +-inf, or NaN for 0/0.
FDiv(a, b) ==
  IF a = FNaN \/ b = FNaN THEN FNaN
  ELSE IF ~IsFinite(b) THEN (IF IsFinite(a) THEN RatOfInt(0) ELSE FNaN)
  ELSE IF ~IsFinite(a) THEN (IF b.num < 0 THEN FNeg(a) ELSE a)
  ELSE IF b.num = 0 THEN [num |-> Sign(a.num), den |-> 0]
  ELSE Rat(Sign(b.num) * a.num * b.den, Abs(b.num) * a.den)

(***************************************************************************)
(* PompProbeData.from_raw_file: the CSV decode.                            *)
(*                                                                         *)
(* A file is [encoding, lines]; a line is [kind, cells] with kind "blank"  *)
(* (an empty line), "text" (a line of the preamble), "names" (cells are    *)
(* column names) or "data" (cells are numbers).  The column name           *)
(* "kyoudo1 (mv)" stands for the source's non-ASCII name of the first      *)
(* intensity column, "kyoudo2 (mV)" for the second.                        *)
(***************************************************************************)
\* C = 3.0 * 1e-2 [cm/ps]
C == Rat(3, 100)
\* header=18: the 0-based number of the header row among the non-blank lines.
HeaderRow == 18
\* raw_df[...] * 1000
MilliScale == 1000

PositionColumn == "x (cm)"
IntensityColumn == "kyoudo1 (mv)"
NonAsciiNames == {"kyoudo1 (mv)", "kyoudo2 (mV)"}

\* The text of a line as read with the encoding `encoding`: a line holding
\* non-ASCII names written in cp932 is no valid UTF-8, and one written in
\* UTF-8 reads in cp932 as other characters.
DecodeLine(line, written, encoding) ==
  IF line.kind # "names" \/ written = encoding
     \/ \A j \in 1..Len(line.cells) : line.cells[j] \notin NonAsciiNames
  THEN [exc |-> "", val |-> line]
  ELSE IF encoding = "UTF-8" THEN [exc |-> "UnicodeDecodeError", val |-> line]
  ELSE [exc |-> "",
        val |-> [line EXCEPT !.cells =
                   [j \in 1..Len(line.cells) |->
                      IF line.cells[j] \in NonAsciiNames THEN "mojibake"
                      ELSE line.cells[j]]]]

\* The column names a line gives when it is taken as the header row.
ColumnNames(line) ==
  IF line.kind = "names" THEN line.cells
  ELSE [j \in 1..Len(line.cells) |-> "not a name"]

\* The position (1-based) of the column called name, 0 when there is none.
ColumnIndex(names, name) ==
  IF \E j \in 1..Len(names) : names[j] = name
  THEN CHOOSE j \in 1..Len(names) : names[j] = name /\ \A h \in 1..(j - 1) : names[h] # name
  ELSE 0

\* The table read from the non-blank lines `kept`: the line numbered 18
\* names the columns, the lines after it are the rows.
ParseTable(kept) ==
  IF Len(kept) < HeaderRow + 1
  THEN [exc |-> "ParserError", columns |-> <<>>, rows |-> <<>>]
  ELSE IF \E j \in (HeaderRow + 2)..Len(kept) :
            Len(kept[j].cells) > Len(kept[HeaderRow + 1].cells)
  THEN [exc |-> "ParserError", columns |-> <<>>, rows |-> <<>>]
  ELSE [exc |-> "", columns |-> ColumnNames(kept[HeaderRow + 1]),
        rows |-> [j \in 1..(Len(kept) - HeaderRow - 1) |-> kept[HeaderRow + 1 + j].cells]]

\* The lines as text, blank lines skipped.
SkipBlank(texts) ==
  IF \E j \in 1..Len(texts) : texts[j].exc # ""
  THEN [exc |-> "UnicodeDecodeError", columns |-> <<>>, rows |-> <<>>]
  ELSE ParseTable(SelectSeq([j \in 1..Len(texts) |-> texts[j].val],
                            LAMBDA l : l.kind # "blank"))

\* pd.read_csv(file, encoding=encoding, header=18)
ReadCsv(file, encoding) ==
  SkipBlank([j \in 1..Len(file.lines) |->
               DecodeLine(file.lines[j], file.encoding, encoding)])

\* The table of time and intensity made from the raw table.
FrameOf(raw_df, x, v) ==
  IF raw_df.exc # "" THEN [exc |-> raw_df.exc, val |-> NoPompProbeData]
  ELSE IF x = 0 \/ v = 0 THEN [exc |-> "KeyError", val |-> NoPompProbeData]
  ELSE [exc |-> "",
        val |-> <<PompProbeData(
                    [j \in 1..Len(raw_df.rows) |->
                       [time |-> FDiv(raw_df.rows[j][x], C),
                        intensity |-> raw_df.rows[j][v] * MilliScale]])>>]

\* The columns "x (cm)" and "kyoudo1 (mv)" looked up in the raw table.
SelectColumns(raw_df) ==
  FrameOf(raw_df, ColumnIndex(raw_df.columns, PositionColumn),
          ColumnIndex(raw_df.columns, IntensityColumn))

\* PompProbeData._from_raw_buffer(file, encoding)
PPFromRawBuffer(file, encoding) ==
  SelectColumns(ReadCsv(file, IF encoding = "None" THEN "cp932" ELSE encoding))

\* The corrections of from_raw_file, given the detected index.
ApplyOffsets(df, intensity, offset_index, intensity_offset, auto_time_offset, auto_intensity_offset) ==
  IF offset_index.exc # "" THEN [exc |-> offset_index.exc, val |-> NoPompProbeData]
  ELSE IF auto_intensity_offset /\ intensity_offset.exc # ""
  THEN [exc |-> intensity_offset.exc, val |-> NoPompProbeData]
  ELSE [exc |-> "",
        val |-> <<PompProbeData(
                    [j \in 1..Len(df) |->
                       [time |-> IF auto_time_offset
                                 THEN FSub(df[j].time, df[offset_index.val + 1].time)
                                 ELSE df[j].time,
                        intensity |-> IF auto_intensity_offset
                                      THEN FSub(RatOfInt(intensity[j]), intensity_offset.val)
                                      ELSE RatOfInt(intensity[j])]])>>]

\* The baseline fitted to the samples whose time, as the table holds it when
\* the fit is made, is negative: a fit by time value, not by position.
FitBaselineByTime(self, intensity, offset_index, auto_time_offset, auto_intensity_offset) ==
  LET shift == IF auto_time_offset /\ offset_index.exc = ""
               THEN self.df[offset_index.val + 1].time ELSE RatOfInt(0)
      before == SelectSeq([j \in 1..Len(self.df) |-> j],
                          LAMBDA j : FSub(self.df[j].time, shift).num < 0)
  IN  ApplyOffsets(self.df, intensity, offset_index,
                   Polyfit0([h \in 1..Len(before) |-> intensity[before[h]]]),
                   auto_time_offset, auto_intensity_offset)

\* self.get_offset_index(), then the baseline fitted before that index.
FitBaseline(self, intensity, offset_index, auto_time_offset, auto_intensity_offset) ==
  ApplyOffsets(self.df, intensity, offset_index,
               Polyfit0(Take(intensity, offset_index.val)),
               auto_time_offset, auto_intensity_offset)

\* from_raw_file after the decode: detection and the two corrections.
DetectAndCorrect(made, auto_time_offset, auto_intensity_offset) ==
  IF made.exc # "" THEN made
  ELSE FitBaseline(made.val[1], Column(made.val[1].df, "intensity"),
                   GetOffsetIndex(made.val[1], PPDefaultWindow, PPDefaultK),
                   auto_time_offset, auto_intensity_offset)

\* PompProbeData.from_raw_file(filepath_or_buffer, encoding,
\*                             auto_time_offset, auto_intensity_offset)
PPFromRawFileCall(arg, encoding, auto_time_offset, auto_intensity_offset) ==
  IF arg.type \in {"str", "BufferedIOBase"}
  THEN DetectAndCorrect(PPFromRawBuffer(arg.data, encoding),
                        auto_time_offset, auto_intensity_offset)
  ELSE [exc |-> "TypeError", val |-> NoPompProbeData]

(***************************************************************************)
(* Detection and the corrections on a table that holds float intensities,  *)
(* as the tables returned by to_vdf and from_raw_file do.                  *)
(***************************************************************************)
\* The least common denominator of a column of fractions.
RECURSIVE LcmDen(_)
LcmDen(x) ==
  IF x = <<>> THEN 1
  ELSE LET r == LcmDen(Tail(x))
       IN  (r \div GCD(r, Head(x).den)) * Head(x).den

\* The greatest common divisor of a column of integers (0 when all are 0).
RECURSIVE GcdAll(_)
GcdAll(v) == IF v = <<>> THEN 0 ELSE GCD(Abs(Head(v)), GcdAll(Tail(v)))

OverDen(x, D) == [j \in 1..Len(x) |-> x[j].num * (D \div x[j].den)]
DividedBy(v, g) == IF g = 0 THEN v ELSE [j \in 1..Len(v) |-> v[j] \div g]

\* A column of finite floats as integers in the same proportion: the
\* numerators over the common denominator, in lowest terms.  The comparison
\* intensity > mean + k * std is the same for a column and for its
\* multiple by a positive number, which keeps the integers small.
InProportion(x) == DividedBy(OverDen(x, LcmDen(x)), GcdAll(OverDen(x, LcmDen(x))))

\* np.polyfit(x, y, deg=0) on a float column: its mean.
RECURSIVE Total(_)
Total(y) == IF y = <<>> THEN RatOfInt(0) ELSE FAdd(Head(y), Total(Tail(y)))
Polyfit0OfFloats(y) ==
  IF Len(y) = 0 THEN [exc |-> "TypeError", val |-> RatOfInt(0)]
  ELSE [exc |-> "", val |-> FDiv(Total(y), RatOfInt(Len(y)))]

\* The two corrections of to_vdf on the vertical view vdf, both flags set,
\* given the detected index and the fitted constant.
CorrectVdf(vdf, intensity, offset_index, intensity_offset) ==
  IF offset_index.exc # "" THEN [exc |-> offset_index.exc, index |-> 0, val |-> <<>>]
  ELSE IF intensity_offset.exc # "" THEN [exc |-> intensity_offset.exc, index |-> 0, val |-> <<>>]
  ELSE [exc |-> "", index |-> offset_index.val,
        val |-> [j \in 1..Len(vdf) |->
                   [time |-> F32Sub(vdf[j].time, vdf[offset_index.val + 1].time),
                    intensity |-> FSub(intensity[j], intensity_offset.val)]]]

FitVdf(vdf, intensity, offset_index) ==
  CorrectVdf(vdf, intensity, offset_index, Polyfit0OfFloats(Take(intensity, offset_index.val)))

\* _get_offset_index_for_vdf(vdf) and the two corrections, on a vertical
\* view that to_vdf returned.
CorrectVdfAgain(vdf) ==
  FitVdf(vdf, Column(vdf, "intensity"),
         GetOffsetIndexForVdf(InProportion(Column(vdf, "intensity")), DefaultWindow, DefaultK))

\* The two corrections of from_raw_file on the table df, both flags set.
CorrectDf(df, intensity, offset_index, intensity_offset) ==
  IF offset_index.exc # "" THEN [exc |-> offset_index.exc, index |-> 0, val |-> <<>>]
  ELSE IF intensity_offset.exc # "" THEN [exc |-> intensity_offset.exc, index |-> 0, val |-> <<>>]
  ELSE [exc |-> "", index |-> offset_index.val,
        val |-> [j \in 1..Len(df) |->
                   [time |-> FSub(df[j].time, df[offset_index.val + 1].time),
                    intensity |-> FSub(intensity[j], intensity_offset.val)]]]

FitDf(df, intensity, offset_index) ==
  CorrectDf(df, intensity, offset_index, Polyfit0OfFloats(Take(intensity, offset_index.val)))

\* self.get_offset_index() and the two corrections, on a record that
\* from_raw_file returned.
CorrectAgain(self) ==
  FitDf(self.df, Column(self.df, "intensity"),
        GetOffsetIndex(PompProbeData([j \in 1..Len(self.df) |->
                                        [time |-> self.df[j].time,
                                         intensity |-> InProportion(Column(self.df, "intensity"))[j]]]),
                       PPDefaultWindow, PPDefaultK))

(***************************************************************************)
(* tlab.google.credentials.                                                *)
(*                                                                         *)
(* A dict whose values are themselves dicts holds references: `dicts` is   *)
(* the store of the inner dict objects by identity, and an outer dict maps *)
(* a key to the identity of an inner one.  None is the string "None".      *)
(***************************************************************************)
SCOPES ==
  <<"https://www.googleapis.com/auth/gmail.send",
    "https://www.googleapis.com/auth/gmail.readonly">>

\* The dict written under "installed" in CLIENT_CONFIG.
Installed ==
  [client_id |-> "629905107772-2rq0b441g8k6v428ul0hvhlp0p8pq09a.apps.googleusercontent.com",
   client_secret |-> "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",
   redirect_uris |-> <<"http://localhost", "urn:ietf:wg:oauth:2.0:oob">>,
   auth_uri |-> "https://accounts.google.com/o/oauth2/auth",
   token_uri |-> "https://accounts.google.com/o/oauth2/token"]

\* The dict objects when the module is loaded, and the module-level
\* CLIENT_CONFIG, whose key "installed" refers to the first of them.
ModuleDicts == <<Installed>>
CLIENT_CONFIG == [installed |-> 1]

\* dict.copy(): a new outer dict with the same values, so the same
\* references.
Copy(d) == [key \in DOMAIN d |-> d[key]]

\* outer[key][name] = value, on the store of dict objects.
SetInner(store, outer, key, name, value) ==
  [store EXCEPT ![outer[key]] = [@ EXCEPT ![name] = value]]

\* The contents of an outer dict, its references followed.
Contents(store, outer) == [key \in DOMAIN outer |-> store[outer[key]]]

NoCredentials == <<>>

\* A google.oauth2 credentials object: valid, refresh_token, and the
\* number of times its refresh was called.
GoogleCredentials(valid, refresh_token) ==
  [valid |-> valid, refresh_token |-> refresh_token, refreshes |-> 0]

\* creds.refresh(request): the access token is renewed.
RefreshOf(creds) == [creds EXCEPT !.valid = TRUE, !.refreshes = @ + 1]

\* Credentials(credentials)
Credentials(creds) == [creds |-> creds]

\* flow.InstalledAppFlow.from_client_config(client_config, scopes), then
\* run_local_server() or run_console(): the flow keeps the configuration
\* it was built with; the credentials it grants are valid.
Flow(client_config, scopes, run_local_server) ==
  [client_config |-> client_config, scopes |-> scopes,
   ran |-> IF run_local_server THEN "run_local_server" ELSE "run_console"]

\* The assignments of new to client_config.
Configure(store, client_config, client_id, client_secret) ==
  LET with_id == IF client_id # ""
                 THEN SetInner(store, client_config, "installed", "client_id", client_id)
                 ELSE store
  IN  IF client_secret # ""
      THEN SetInner(with_id, client_config, "installed", "client_secret", client_secret)
      ELSE with_id

\* Credentials.new(client_id, client_secret, run_local_server), on the
\* store of dict objects.
New(store, client_id, client_secret, run_local_server) ==
  LET client_config == Copy(CLIENT_CONFIG)
      stored == Configure(store, client_config, client_id, client_secret)
  IN  [dicts |-> stored,
       flow |-> Flow(Contents(stored, client_config), SCOPES, run_local_server),
       val |-> Credentials(GoogleCredentials(TRUE, "refresh_token"))]

\* Python truth of a str or None.
Truthy(x) == x # "None" /\ x # ""

\* from_file refreshing whatever it loaded.
FromFileAlwaysRefreshing(creds) ==
  IF Truthy(creds.refresh_token) \/ creds.valid
  THEN [exc |-> "", creds |-> RefreshOf(creds)]
  ELSE [exc |-> "ValueError", creds |-> creds]

\* Credentials.from_file after the load: creds is what
\* from_authorized_user_file returned.
FromFileLoaded(creds) ==
  IF ~creds.valid
  THEN IF Truthy(creds.refresh_token)
       THEN [exc |-> "", creds |-> RefreshOf(creds)]
       ELSE [exc |-> "ValueError", creds |-> creds]
  ELSE [exc |-> "", creds |-> creds]

\* credentials.Credentials.from_authorized_user_file(filename, SCOPES): the
\* object the file describes; a file that is not there raises.
FromAuthorizedUserFile(file) ==
  IF file.exists THEN [exc |-> "", creds |-> GoogleCredentials(file.valid, file.refresh_token)]
  ELSE [exc |-> "FileNotFoundError", creds |-> <<>>]

\* Credentials.from_file(filename), file being what filename names.
FromFileCall(file) ==
  IF FromAuthorizedUserFile(file).exc # "" THEN FromAuthorizedUserFile(file)
  ELSE FromFileLoaded(FromAuthorizedUserFile(file).creds)

(***************************************************************************)
(* tlab.google.gmail: GmailAPI.get_signature.  A dict is a function from   *)
(* its keys; a list is a sequence.                                         *)
(***************************************************************************)
\* d.get(key, default)
Get(d, key, default) == IF key \in DOMAIN d THEN d[key] ELSE default

\* {sendas["sendAsEmail"]: sendas for sendas in list}: the keys in the
\* order of their first occurrence, each with the last value written.
RECURSIVE KeysOf(_)
KeysOf(list) ==
  IF list = <<>> THEN <<>>
  ELSE LET before == KeysOf(SubSeq(list, 1, Len(list) - 1))
           key == list[Len(list)]["sendAsEmail"]
       IN  IF \E j \in 1..Len(before) : before[j] = key THEN before
           ELSE Append(before, key)

LastWith(list, key) ==
  list[CHOOSE j \in 1..Len(list) :
         /\ list[j]["sendAsEmail"] = key
         /\ \A h \in (j + 1)..Len(list) : list[h]["sendAsEmail"] # key]

\* The values of addr_to_sendas, in the order of the dict.
AddrToSendasValues(list) == [j \in 1..Len(KeysOf(list)) |-> LastWith(list, KeysOf(list)[j])]

\* The alias get_signature picks among the values of addr_to_sendas:
\* list.pop() of the defaults, or the entry of the address.
ChooseSendas(values, address) ==
  LET defaults == SelectSeq(values, LAMBDA sendas : Get(sendas, "isDefault", FALSE))
      named == SelectSeq(values, LAMBDA sendas : sendas["sendAsEmail"] = address)
  IN  IF address = "None"
      THEN IF defaults = <<>> THEN [exc |-> "IndexError", val |-> <<>>]
           ELSE [exc |-> "", val |-> <<defaults[Len(defaults)]>>]
      ELSE IF named = <<>> THEN [exc |-> "ValueError", val |-> <<>>]
           ELSE [exc |-> "", val |-> <<named[1]>>]

SignatureOf(chosen) ==
  IF chosen.exc # "" THEN [exc |-> chosen.exc, val |-> ""]
  ELSE [exc |-> "", val |-> Get(chosen.val[1], "signature", "")]

\* GmailAPI.get_signature(address), given the response of
\* users().settings().sendAs().list(userId).execute().
GetSignature(response, address) ==
  SignatureOf(ChooseSendas(AddrToSendasValues(Get(response, "sendAs", <<>>)), address))

(***************************************************************************)
(* PompProbePairData.                                                      *)
(***************************************************************************)
NoPair == <<>>

\* PompProbePairData(RR, RL); df is the slot of the cached property.
PompProbePairData(RR, RL) == [RR |-> RR, RL |-> RL, df |-> NoTable]

\* The value a column takes at the 1-based row j of a frame built from
\* columns of several lengths: NaN where the column has no such row.
AtRow(col, j) == IF j <= Len(col) THEN col[j] ELSE FNaN

\* The pair table with time taken from RL and the difference reversed.
PairDfReversed(self) ==
  LET time == Column(self.RL.df, "time")
      RR == Column(self.RR.df, "intensity")
      RL == Column(self.RL.df, "intensity")
      n == Max(Len(RR), Len(RL))
  IN  [j \in 1..n |->
         [time |-> AtRow(time, j),
          RR |-> AtRow(RR, j),
          RL |-> AtRow(RL, j),
          SpinPolarization |->
            FMul(FDiv(FSub(AtRow(RL, j), AtRow(RR, j)),
                      FAdd(AtRow(RR, j), AtRow(RL, j))),
                 RatOfInt(100))]]

\* The body of the cached property PompProbePairData.df
PairDf(self) ==
  LET time == Column(self.RR.df, "time")
      RR == Column(self.RR.df, "intensity")
      RL == Column(self.RL.df, "intensity")
      n == Max(Len(RR), Len(RL))
  IN  [j \in 1..n |->
         [time |-> AtRow(time, j),
          RR |-> AtRow(RR, j),
          RL |-> AtRow(RL, j),
          SpinPolarization |->
            FMul(FDiv(FSub(AtRow(RR, j), AtRow(RL, j)),
                      FAdd(AtRow(RR, j), AtRow(RL, j))),
                 RatOfInt(100))]]

\* Reading pair.df: the cached table when there is one, else the computed
\* one, which is then cached.
ReadPairDf(self) ==
  IF self.df.computed THEN [val |-> self.df.rows, self |-> self]
  ELSE LET d == PairDf(self)
       IN  [val |-> d, self |-> [self EXCEPT !.df = [computed |-> TRUE, rows |-> d]]]

(***************************************************************************)
(* Inputs.                                                                 *)
(***************************************************************************)
F(v) == IntToF32(v)

\* Metadata: four newline-terminated lines, as bytes.
MetaAscii == << <<72, 105, 10>>, <<10>>, <<83, 10>>, <<68, 10>> >>
MetaMulti == << <<195, 169, 10>>, <<226, 130, 172, 10>>, <<240, 159, 152, 128, 10>>, <<10>> >>
MetaInvalid == << <<255, 10>>, <<10>>, <<10>>, <<10>> >>

AltHeader == [i \in 1..HeaderLen |-> IF i % 2 = 0 THEN 10 ELSE 255]

\* Intensity arrays of n samples over the values vals.
IntensityFamily(n, vals) ==
  {[i \in 1..n |-> v] : v \in vals}
    \cup {[i \in 1..n |-> IF i = p THEN v ELSE 0] : p \in {1, n}, v \in vals}
    \cup {[i \in 1..n |-> i]}

\* Axes of n values: ascending, ascending from 5, constant, alternating,
\* descending.
AxisAsc(n) == [i \in 1..n |-> F(i - 1)]
AxisAsc5(n) == [i \in 1..n |-> F(i + 4)]
AxisConst(n) == [i \in 1..n |-> F(3)]
AxisAlt(n) == [i \in 1..n |-> F(i % 2)]
AxisDesc(n) == [i \in 1..n |-> F(n - i)]

\* (wavelength, time) pairs of a W x T record.
AxisPairs(W, T) ==
  { <<AxisAsc(W), AxisAsc5(T)>>, <<AxisConst(W), AxisDesc(T)>>,
    <<AxisDesc(W), AxisAlt(T)>>, <<AxisAlt(W), AxisConst(T)>> }

\* A well-formed raw file.
RawFile(header, meta, intensity, wavelength, time) ==
  header \o Concat(meta)
    \o ToBytesU16([dtype |-> "uint16", data |-> intensity])
    \o ToBytesF32(wavelength) \o [i \in 1..(ReadAxisBytes - 4 * Len(wavelength)) |-> 170]
    \o ToBytesF32(time) \o [i \in 1..(ReadAxisBytes - 4 * Len(time)) |-> 85]

RawFiles ==
  { RawFile(hm[1], hm[2], i, a[1], a[2]) :
      hm \in { <<DefaultHeader, MetaAscii>>, <<DefaultHeader, MetaMulti>>,
               <<DefaultHeader, MetaInvalid>>, <<AltHeader, MetaAscii>> },
      i \in IntensityFamily(TimeResolution * WavelengthResolution, {10, 65535}),
      a \in AxisPairs(WavelengthResolution, TimeResolution) }

\* A well-formed file cut short: in the header, and at every length from the
\* last metadata byte to the first bytes of the time block.
TruncatedFiles ==
  LET whole == RawFile(DefaultHeader, MetaAscii,
                       [i \in 1..(TimeResolution * WavelengthResolution) |-> i],
                       AxisAsc(WavelengthResolution), AxisAsc5(TimeResolution))
      data == HeaderLen + Len(Concat(MetaAscii))
  IN  { Take(whole, n) :
          n \in {0, HeaderLen \div 2}
                 \cup ((data - 1)..(data + IntensityBlockBytes + ReadAxisBytes + 5)) }

\* The arguments given to PLData.from_raw_file: a stream, a path to a file
\* holding the data, or something that is neither (None, or a text stream
\* over the same data).
FileArgs ==
  { [type |-> "BufferedIOBase", data |-> d] : d \in RawFiles \cup TruncatedFiles }
    \cup { [type |-> t, data |-> RawFile(DefaultHeader, MetaAscii,
                [i \in 1..(TimeResolution * WavelengthResolution) |-> i],
                AxisAsc(WavelengthResolution), AxisAsc(TimeResolution))] :
             t \in {"str", "StringIO"} }
    \cup { [type |-> "NoneType", data |-> <<>>] }

StrAscii == << <<72, 105, 10>>, <<10>>, <<83, 10>>, <<68, 10>> >>
StrMulti == << <<233, 10>>, <<8364, 10>>, <<128512, 10>>, <<10>> >>

\* Records built from arrays with the format's shape.
ShapedRecords ==
  { PLData([dtype |-> "uint32", data |-> i], a[1], a[2], hm[1], hm[2]) :
      i \in IntensityFamily(TimeResolution * WavelengthResolution,
                            {1, 65546, 16777226}),
      a \in AxisPairs(WavelengthResolution, TimeResolution),
      hm \in { <<DefaultHeader, <<>> >>, <<DefaultHeader, StrAscii>>,
               <<AltHeader, StrMulti>> } }

\* Intensity series of n samples: flat, a step at s (0-based), a pulse at s,
\* a step followed by a drop to 0, a ramp, and a step on a noisy baseline.
Flat(n, b) == [i \in 1..n |-> b]
Step(n, b, s, h) == [i \in 1..n |-> IF i - 1 >= s THEN b + h ELSE b]
Pulse(n, b, s, h) == [i \in 1..n |-> IF i - 1 = s THEN b + h ELSE b]
StepDrop(n, b, s, h) == [i \in 1..n |-> IF i - 1 = s THEN b + h ELSE IF i - 1 > s THEN 0 ELSE b]
Ramp(n) == [i \in 1..n |-> i]
NoisyStep(n, s, h) == [i \in 1..n |-> IF i - 1 >= s THEN h ELSE i % 2]

TransientLen == DefaultWindow + ExtraTimes

Transients(n) ==
  { Flat(n, b) : b \in {0, 7} }
    \cup { Step(n, b, s, h) : b \in {0, 7}, s \in (DefaultWindow - 1)..(n - 1), h \in {1, 100} }
    \cup { Pulse(n, 7, s, 1) : s \in (DefaultWindow - 1)..(n - 1) }
    \cup { StepDrop(n, 7, s, 100) : s \in (DefaultWindow - 1)..(n - 1) }
    \cup { Ramp(n) }
    \cup { NoisyStep(n, s, 100) : s \in {3, DefaultWindow + 1} }

\* Records of TransientLen times and W wavelengths whose first wavelength
\* carries the series x and whose other wavelengths carry 1.
TransientRecord(x, W, time) ==
  PLData([dtype |-> "uint32",
          data |-> [i \in 1..(Len(x) * W) |->
                      IF (i - 1) % W = 0 THEN x[((i - 1) \div W) + 1] ELSE 1]],
         AxisAsc(W), time, DefaultHeader, <<>>)

TransientRecords ==
  { TransientRecord(x, Wt[1], Wt[2]) :
      x \in Transients(TransientLen),
      Wt \in { <<1, AxisAsc(TransientLen)>>, <<2, AxisAsc5(TransientLen)>> } }

\* Free-form series over a few values, up to MaxLen samples.
RECURSIVE SeqsUpTo(_, _)
SeqsUpTo(S, n) ==
  IF n = 0 THEN {<<>>}
  ELSE LET shorter == SeqsUpTo(S, n - 1)
       IN  shorter \cup {Append(x, v) : x \in {y \in shorter : Len(y) = n - 1}, v \in S}

SeriesInputs == SeqsUpTo({0, 1, 3}, MaxLen) \cup Transients(TransientLen)

\* A time/intensity table over the series x.
SeriesFrame(x) == [i \in 1..Len(x) |-> [time |-> i - 1, intensity |-> x[i]]]

\* The (window, k) pairs given to the detectors: the defaults and small ones.
DetectorArgs ==
  {<<PPDefaultWindow, PPDefaultK>>} \cup ((1..MaxWindow) \X (0..MaxK))

RangeInputs ==
  { NoRange, Range(F(0), F(0)), Range(F(100), F(200)) }

\* Lines of a pump-probe file.
TextLine == [kind |-> "text", cells |-> <<"no data">>]
BlankLine == [kind |-> "blank", cells |-> <<>>]
NamesLine == [kind |-> "names", cells |-> <<"x (cm)", "kyoudo1 (mv)", "kyoudo2 (mV)">>]
OtherNamesLine == [kind |-> "names", cells |-> <<"x (cm)", "kyoudo2 (mV)">>]
DataLine(x, mv) == [kind |-> "data", cells |-> <<x, mv, 0>>]

\* A preamble of n lines of text.
Preamble(n) == [j \in 1..n |-> TextLine]

\* A file: preamble, line of names, one line per reading.
CsvFile(written, preamble, names, position, mv) ==
  [encoding |-> written,
   lines |-> preamble \o <<names>>
             \o [j \in 1..Len(mv) |-> DataLine(position[j], mv[j])]]

\* Stage positions [cm]: n steps of 0.1 upwards from 8.2, or downwards.
PositionsUp(n) == [j \in 1..n |-> Rat(81 + j, 10)]
PositionsDown(n) == [j \in 1..n |-> Rat(97 - (2 * j), 10)]

\* Readings [mv] of n rows over 0 and 1: an early pulse at row q (0-based)
\* and a step at row s.
PulseThenStep(n, q, s) == [j \in 1..n |-> IF j - 1 = q \/ j - 1 >= s THEN 1 ELSE 0]

CsvLen == PPDefaultWindow + ExtraRows

CsvReadings ==
  { Step(CsvLen, 0, s, 1) : s \in (PPDefaultWindow - 1)..(CsvLen - 1) }
    \cup { PulseThenStep(CsvLen, q, s) : q \in 0..(CsvLen - PPDefaultWindow),
                                         s \in (CsvLen - 2)..(CsvLen - 1) }
    \cup { Pulse(CsvLen, 0, s, 1) : s \in {PPDefaultWindow - 1, PPDefaultWindow} }
    \cup { Flat(CsvLen, b) : b \in {0, 1} }
    \cup SeqsUpTo({0, 1}, 2)

\* Files written as the instrument writes them.
GoodCsvFiles ==
  { CsvFile("cp932", Preamble(HeaderRow), NamesLine, p[1], mv) :
      mv \in CsvReadings, p \in { <<PositionsUp(CsvLen)>>, <<PositionsDown(CsvLen)>> } }

\* Other files: a blank line before the preamble, a preamble one line short
\* or long, a file that ends in the preamble, a missing column, UTF-8 text.
OddCsvFiles ==
  LET mv == Step(CsvLen, 0, PPDefaultWindow, 1)
      x == PositionsUp(CsvLen)
  IN  { CsvFile("cp932", <<BlankLine>> \o Preamble(HeaderRow), NamesLine, x, mv),
        CsvFile("cp932", Preamble(HeaderRow - 1), NamesLine, x, mv),
        CsvFile("cp932", Preamble(HeaderRow + 1), NamesLine, x, mv),
        [encoding |-> "cp932", lines |-> Preamble(HeaderRow - 1)],
        CsvFile("cp932", Preamble(HeaderRow), OtherNamesLine, x, mv),
        CsvFile("UTF-8", Preamble(HeaderRow), NamesLine, x, mv) }

\* The (filepath_or_buffer, encoding) given to PompProbeData.from_raw_file.
PPFileCalls ==
  { [arg |-> [type |-> "BufferedIOBase", data |-> f], encoding |-> "None"] :
      f \in GoodCsvFiles \cup OddCsvFiles }
    \cup { [arg |-> [type |-> t, data |-> f], encoding |-> "UTF-8"] :
             t \in {"str", "BufferedIOBase"}, f \in OddCsvFiles }
    \cup { [arg |-> [type |-> t,
                     data |-> CsvFile("cp932", Preamble(HeaderRow), NamesLine,
                                      PositionsUp(CsvLen),
                                      Step(CsvLen, 0, CsvLen - 1, 1))],
            encoding |-> "None"] : t \in {"str", "StringIO"} }
    \cup { [arg |-> [type |-> "NoneType", data |-> <<>>], encoding |-> e] :
             e \in {"None", "UTF-8"} }

\* The arguments of Credentials.new.
ClientIds == {"", "clientId0", "clientId1"}
ClientSecrets == {"", "clientSecret0"}

\* Authorized user files: one that is not there, and files of credentials
\* valid or not, with a refresh token, with an empty one, with none.
AuthorizedUserFiles ==
  { [exists |-> FALSE, valid |-> FALSE, refresh_token |-> "None"] }
    \cup { [exists |-> TRUE, valid |-> v, refresh_token |-> t] :
             v \in BOOLEAN, t \in {"None", "", "refresh_token"} }

\* Send-as aliases as the service lists them: its keys "signature" and
\* "isDefault" may be missing.
Aliases ==
  { [sendAsEmail |-> "foo0@example.com", displayName |-> "foo",
     signature |-> "foo0 bar", isDefault |-> FALSE],
    [sendAsEmail |-> "foo1@example.com", displayName |-> "foo"],
    [sendAsEmail |-> "foo2@example.com", displayName |-> "foo", signature |-> ""],
    [sendAsEmail |-> "default@example.com", displayName |-> "dafault user",
     signature |-> "default user", isDefault |-> TRUE] }

\* Lists of up to n aliases with distinct addresses.
Extended(list) ==
  { Append(list, a) :
      a \in {b \in Aliases : \A j \in 1..Len(list) : list[j]["sendAsEmail"] # b["sendAsEmail"]} }

RECURSIVE AliasLists(_)
AliasLists(n) ==
  IF n = 0 THEN {<<>>}
  ELSE AliasLists(n - 1)
         \cup UNION { Extended(list) : list \in {l \in AliasLists(n - 1) : Len(l) = n - 1} }

\* Responses of sendAs().list(): with the key "sendAs", or without it when
\* there is no alias.
Responses ==
  { [sendAs |-> list] : list \in AliasLists(MaxAliases) } \cup { [resultSizeEstimate |-> 0] }

Addresses == {"None", "foo0@example.com", "foo1@example.com", "default@example.com", "unexist@example.com"}

\* Tables given to PompProbePairData: times from start in steps of 10/3,
\* intensities over a few values, up to MaxPairLen rows.
PairFrame(start, x) ==
  [j \in 1..Len(x) |-> [time |-> Rat(10 * (start + j), 3), intensity |-> RatOfInt(x[j])]]
PairSeries == SeqsUpTo({0 - 5, 0, 5, 10}, MaxPairLen)

(***************************************************************************)
(* The state machine: one session creates one object and calls it.         *)
(***************************************************************************)
NoOrigin == [made |-> "none", buf |-> <<>>, trips |-> 0, prev |-> <<>>]
NoResult == [op |-> "none", args |-> <<>>, exc |-> "", val |-> <<>>]

Init ==
  /\ pl = NoPLData
  /\ ppdata = NoPompProbeData
  /\ origin = NoOrigin
  /\ result = NoResult
  /\ decoded = NoPompProbeData
  /\ pair = NoPair
  /\ readers = NoReaders
  /\ dicts = ModuleDicts
  /\ credentials = NoCredentials

Fresh ==
  /\ pl = NoPLData
  /\ ppdata = NoPompProbeData
  /\ decoded = NoPompProbeData
  /\ pair = NoPair
  /\ result.op = "none"

\* PLData(...): a record built from arrays.
Construct ==
  /\ Fresh
  /\ \E r \in ShapedRecords \cup TransientRecords :
       /\ pl' = <<r>>
       /\ origin' = [NoOrigin EXCEPT !.made = "PLData"]
       /\ result' = [op |-> "PLData", args |-> <<>>, exc |-> "", val |-> <<>>]
  /\ UNCHANGED <<ppdata, decoded, pair, readers, dicts, credentials>>

\* from_raw_file decoding whatever it is given, with no test of its type.
FromRawFileUntyped(arg) == FromRawBuffer(Open(arg.data))

\* PLData.from_raw_file(filepath_or_buffer)
FromRawFileCall(arg) ==
  IF arg.type \in {"str", "BufferedIOBase"}
  THEN FromRawBuffer(Open(arg.data))
  ELSE Raise("TypeError")

FromRawFile ==
  /\ Fresh
  /\ \E arg \in FileArgs :
       LET r == FromRawFileCall(arg)
       IN  /\ pl' = r.val
           /\ origin' = [NoOrigin EXCEPT !.made = "from_raw_file", !.buf = arg.data]
           /\ result' = [op |-> "from_raw_file", args |-> <<arg.type>>,
                         exc |-> r.exc, val |-> <<>>]
  /\ UNCHANGED <<ppdata, decoded, pair, readers, dicts, credentials>>

\* self.to_raw_binary()
ToRawBinaryCall ==
  /\ pl # NoPLData
  /\ LET r == ToRawBinary(pl[1])
     IN  result' = [op |-> "to_raw_binary", args |-> <<>>, exc |-> r.exc, val |-> r.val]
  /\ UNCHANGED <<pl, ppdata, origin, decoded, pair, readers, dicts, credentials>>

\* PLData.from_raw_file(io.BytesIO(data)) on the bytes to_raw_binary has
\* just returned; origin.prev remembers the record that was encoded.
RoundTrip ==
  /\ pl # NoPLData
  /\ result.op = "to_raw_binary"
  /\ result.exc = ""
  /\ origin.trips < MaxRoundTrips
  /\ LET r == FromRawFileCall([type |-> "BufferedIOBase", data |-> result.val])
     IN  /\ pl' = r.val
         /\ origin' = [made |-> "from_raw_file", buf |-> result.val,
                       trips |-> origin.trips + 1,
                       prev |-> <<[pl |-> pl[1], made |-> origin.made,
                                   buf |-> origin.buf]>>]
         /\ result' = [op |-> "from_raw_file", args |-> <<"BufferedIOBase">>,
                       exc |-> r.exc, val |-> <<>>]
  /\ UNCHANGED <<ppdata, decoded, pair, readers, dicts, credentials>>

\* self.df
DfCall ==
  /\ pl # NoPLData
  /\ LET r == ReadDf(pl[1])
     IN  /\ pl' = <<r.self>>
         /\ result' = [op |-> "df", args |-> <<>>, exc |-> r.exc, val |-> r.val]
  /\ UNCHANGED <<ppdata, origin, decoded, pair, readers, dicts, credentials>>

\* self.to_hdf(time_range)
ToHdfCall ==
  /\ pl # NoPLData
  /\ \E time_range \in RangeInputs :
       LET r == ToHdf(pl[1], time_range)
       IN  /\ pl' = <<r.self>>
           /\ result' = [op |-> "to_hdf", args |-> <<time_range>>,
                         exc |-> r.exc, val |-> r.val]
  /\ UNCHANGED <<ppdata, origin, decoded, pair, readers, dicts, credentials>>

\* self.to_vdf(wavelength_range, auto_time_offset, auto_intensity_offset)
ToVdfCall ==
  /\ pl # NoPLData
  /\ \E wavelength_range \in RangeInputs, ato \in BOOLEAN, aio \in BOOLEAN :
       LET r == ToVdf(pl[1], wavelength_range, ato, aio)
       IN  /\ pl' = <<r.self>>
           /\ result' = [op |-> "to_vdf", args |-> <<wavelength_range, ato, aio>>,
                         exc |-> r.exc, val |-> r.val]
  /\ UNCHANGED <<ppdata, origin, decoded, pair, readers, dicts, credentials>>

\* PompProbeData(df): a record built from a table.
PPConstruct ==
  /\ Fresh
  /\ \E x \in SeriesInputs :
       /\ ppdata' = <<PompProbeData(SeriesFrame(x))>>
       /\ result' = [op |-> "PompProbeData", args |-> <<>>, exc |-> "", val |-> <<>>]
  /\ UNCHANGED <<pl, origin, decoded, pair, readers, dicts, credentials>>

\* self.get_offset_index(window, k)
GetOffsetIndexCall ==
  /\ ppdata # NoPompProbeData
  /\ \E a \in DetectorArgs :
       LET r == GetOffsetIndex(ppdata[1], a[1], a[2])
       IN  result' = [op |-> "get_offset_index", args |-> a, exc |-> r.exc, val |-> r.val]
  /\ UNCHANGED <<pl, ppdata, origin, decoded, pair, readers, dicts, credentials>>

\* _get_offset_index_for_vdf(df, window, k) on the same table.
GetOffsetIndexForVdfCall ==
  /\ ppdata # NoPompProbeData
  /\ \E a \in DetectorArgs :
       LET r == GetOffsetIndexForVdf(Column(ppdata[1].df, "intensity"), a[1], a[2])
       IN  result' = [op |-> "_get_offset_index_for_vdf", args |-> a,
                      exc |-> r.exc, val |-> r.val]
  /\ UNCHANGED <<pl, ppdata, origin, decoded, pair, readers, dicts, credentials>>

\* PompProbeData.from_raw_file(filepath_or_buffer, encoding,
\*                             auto_time_offset, auto_intensity_offset)
PPFromRawFile ==
  /\ Fresh
  /\ \E c \in PPFileCalls, ato \in BOOLEAN, aio \in BOOLEAN :
       LET r == PPFromRawFileCall(c.arg, c.encoding, ato, aio)
       IN  /\ decoded' = r.val
           /\ result' = [op |-> "PompProbeData.from_raw_file",
                         args |-> <<c.arg, c.encoding, ato, aio>>,
                         exc |-> r.exc, val |-> <<>>]
  /\ UNCHANGED <<pl, ppdata, origin, pair, readers, dicts, credentials>>

\* The detection and the corrections run on the table to_vdf returned.
VdfCorrectAgain ==
  /\ result.op = "to_vdf"
  /\ result.exc = ""
  /\ LET r == CorrectVdfAgain(result.val)
     IN  result' = [op |-> "to_vdf again", args |-> <<result.args, result.val>>,
                    exc |-> r.exc, val |-> <<r.index, r.val>>]
  /\ UNCHANGED <<pl, ppdata, origin, decoded, pair, readers, dicts, credentials>>

\* The detection and the corrections run on the record from_raw_file
\* returned.
PPCorrectAgain ==
  /\ result.op = "PompProbeData.from_raw_file"
  /\ result.exc = ""
  /\ LET r == CorrectAgain(decoded[1])
     IN  result' = [op |-> "from_raw_file again", args |-> <<result.args, decoded[1].df>>,
                    exc |-> r.exc, val |-> <<r.index, r.val>>]
  /\ UNCHANGED <<pl, ppdata, origin, decoded, pair, readers, dicts, credentials>>

\* Credentials.new(client_id=..., client_secret=..., run_local_server=...)
NewCall ==
  /\ \E client_id \in ClientIds, client_secret \in ClientSecrets, run_local_server \in BOOLEAN :
       LET r == New(dicts, client_id, client_secret, run_local_server)
       IN  /\ dicts' = r.dicts
           /\ credentials' = <<r.val>>
           /\ result' = [op |-> "Credentials.new",
                         args |-> <<client_id, client_secret, run_local_server>>,
                         exc |-> "", val |-> <<r.flow>>]
  /\ UNCHANGED <<pl, ppdata, origin, decoded, pair, readers>>

\* Credentials.from_file(filename): result.val is the loaded object as the
\* call left it, credentials the instance when one was returned.
FromFile ==
  /\ \E file \in AuthorizedUserFiles :
       LET r == FromFileCall(file)
       IN  /\ credentials' = IF r.exc = "" THEN <<Credentials(r.creds)>> ELSE credentials
           /\ result' = [op |-> "Credentials.from_file", args |-> <<file>>,
                         exc |-> r.exc,
                         val |-> IF r.creds = <<>> THEN <<>> ELSE <<r.creds>>]
  /\ UNCHANGED <<pl, ppdata, origin, decoded, pair, readers, dicts>>

\* self.refresh()
RefreshCall ==
  /\ credentials # NoCredentials
  /\ credentials[1].creds.refreshes < MaxRefreshes
  /\ credentials' = <<Credentials(RefreshOf(credentials[1].creds))>>
  /\ result' = [op |-> "refresh", args |-> <<>>, exc |-> "", val |-> <<>>]
  /\ UNCHANGED <<pl, ppdata, origin, decoded, pair, readers, dicts>>

\* GmailAPI(credentials).get_signature(address=...), the service answering
\* with response.
GetSignatureCall ==
  /\ credentials # NoCredentials
  /\ \E response \in Responses, address \in Addresses :
       LET r == GetSignature(response, address)
       IN  result' = [op |-> "get_signature", args |-> <<response, address>>,
                      exc |-> r.exc, val |-> r.val]
  /\ UNCHANGED <<pl, ppdata, origin, decoded, pair, readers, dicts, credentials>>

\* PompProbePairData(RR, RL)
PairConstruct ==
  /\ Fresh
  /\ \E rr \in PairSeries, rl \in PairSeries :
       /\ pair' = <<PompProbePairData(PompProbeData(PairFrame(0, rr)),
                                      PompProbeData(PairFrame(7, rl)))>>
       /\ result' = [op |-> "PompProbePairData", args |-> <<>>, exc |-> "", val |-> <<>>]
  /\ UNCHANGED <<pl, ppdata, origin, decoded, readers, dicts, credentials>>

\* pair.df
PairDfCall ==
  /\ pair # NoPair
  /\ LET r == ReadPairDf(pair[1])
     IN  /\ pair' = <<r.self>>
         /\ result' = [op |-> "pair.df", args |-> <<>>, exc |-> "", val |-> r.val]
  /\ UNCHANGED <<pl, ppdata, origin, decoded, readers, dicts, credentials>>

\* Records read by several threads at once.
SharedRecords ==
  { PLData([dtype |-> "uint32", data |-> i], a[1], a[2], DefaultHeader, StrAscii) :
      i \in { [j \in 1..(TimeResolution * WavelengthResolution) |-> j],
              [j \in 1..(TimeResolution * WavelengthResolution) |-> 65546] },
      a \in { <<AxisAsc(WavelengthResolution), AxisAsc5(TimeResolution)>>,
              <<AxisDesc(WavelengthResolution), AxisAlt(TimeResolution)>> } }

IdleReader == [pc |-> "idle", val |-> <<>>, seen |-> <<>>]

\* A record is built and MaxReaders threads are started on it.
ReadersStart ==
  /\ Fresh
  /\ readers = NoReaders
  /\ \E r \in SharedRecords :
       /\ pl' = <<r>>
       /\ origin' = [NoOrigin EXCEPT !.made = "PLData"]
  /\ readers' = [t \in 1..MaxReaders |-> IdleReader]
  /\ result' = [op |-> "threads", args |-> <<>>, exc |-> "", val |-> <<>>]
  /\ UNCHANGED <<ppdata, decoded, pair, dicts, credentials>>

\* cached_property.__get__: reader t looks the attribute up in the instance.
ReaderLookup(t) ==
  /\ readers # NoReaders
  /\ readers[t].pc = "idle"
  /\ Len(readers[t].seen) < MaxReads
  /\ readers' = [readers EXCEPT ![t] =
                   IF pl[1].df.computed
                   THEN [@ EXCEPT !.pc = "return", !.val = pl[1].df.rows]
                   ELSE [@ EXCEPT !.pc = "miss"]]
  /\ UNCHANGED <<pl, ppdata, origin, result, decoded, pair, dicts, credentials>>

\* The second look of a reader that missed, made by the Python versions
\* whose cached_property takes a lock: another reader has stored meanwhile.
ReaderLookupAgain(t) ==
  /\ readers # NoReaders
  /\ readers[t].pc = "miss"
  /\ pl[1].df.computed
  /\ readers' = [readers EXCEPT ![t] = [@ EXCEPT !.pc = "return", !.val = pl[1].df.rows]]
  /\ UNCHANGED <<pl, ppdata, origin, result, decoded, pair, dicts, credentials>>

\* Reader t runs the body of df.
ReaderCompute(t) ==
  /\ readers # NoReaders
  /\ readers[t].pc = "miss"
  /\ LET d == ComputeDf(pl[1])
     IN  readers' = [readers EXCEPT ![t] =
                       IF d.exc # "" THEN [@ EXCEPT !.pc = "raised"]
                       ELSE [@ EXCEPT !.pc = "computed", !.val = d.val]]
  /\ UNCHANGED <<pl, ppdata, origin, result, decoded, pair, dicts, credentials>>

\* Reader t stores its table in the instance.
ReaderStore(t) ==
  /\ readers # NoReaders
  /\ readers[t].pc = "computed"
  /\ pl' = <<[pl[1] EXCEPT !.df = [computed |-> TRUE, rows |-> readers[t].val]]>>
  /\ readers' = [readers EXCEPT ![t] = [@ EXCEPT !.pc = "return"]]
  /\ UNCHANGED <<ppdata, origin, result, decoded, pair, dicts, credentials>>

\* The access of reader t returns its table.
ReaderReturn(t) ==
  /\ readers # NoReaders
  /\ readers[t].pc = "return"
  /\ readers' = [readers EXCEPT ![t] =
                   [@ EXCEPT !.pc = "idle", !.seen = Append(@, readers[t].val)]]
  /\ UNCHANGED <<pl, ppdata, origin, result, decoded, pair, dicts, credentials>>

Next ==
  \/ Construct
  \/ FromRawFile
  \/ ToRawBinaryCall
  \/ RoundTrip
  \/ DfCall
  \/ ToHdfCall
  \/ ToVdfCall
  \/ PPConstruct
  \/ GetOffsetIndexCall
  \/ GetOffsetIndexForVdfCall
  \/ PPFromRawFile
  \/ VdfCorrectAgain
  \/ PPCorrectAgain
  \/ NewCall
  \/ FromFile
  \/ RefreshCall
  \/ GetSignatureCall
  \/ PairConstruct
  \/ PairDfCall
  \/ ReadersStart
  \/ \E t \in 1..MaxReaders : ReaderLookup(t)
  \/ \E t \in 1..MaxReaders : ReaderLookupAgain(t)
  \/ \E t \in 1..MaxReaders : ReaderCompute(t)
  \/ \E t \in 1..MaxReaders : ReaderStore(t)
  \/ \E t \in 1..MaxReaders : ReaderReturn(t)

Spec == Init /\ [][Next]_vars

\* The streak-camera sessions alone.
PLNext ==
  \/ Construct
  \/ FromRawFile
  \/ ToRawBinaryCall
  \/ RoundTrip
  \/ DfCall
  \/ ToHdfCall
  \/ ToVdfCall

PLSpec == Init /\ [][PLNext]_vars

\* The offset detectors alone.
PPNext ==
  \/ PPConstruct
  \/ GetOffsetIndexCall
  \/ GetOffsetIndexForVdfCall

PPSpec == Init /\ [][PPNext]_vars

\* The operations that correct offsets: vertical and the CSV decode.
OffsetNext ==
  \/ Construct
  \/ ToVdfCall
  \/ PPFromRawFile

OffsetSpec == Init /\ [][OffsetNext]_vars

\* The corrections, and the corrections run again on their result.
AgainNext ==
  \/ Construct
  \/ ToVdfCall
  \/ PPFromRawFile
  \/ VdfCorrectAgain
  \/ PPCorrectAgain

AgainSpec == Init /\ [][AgainNext]_vars

\* The credentials alone.
CredentialsNext ==
  \/ NewCall
  \/ FromFile
  \/ RefreshCall

CredentialsSpec == Init /\ [][CredentialsNext]_vars

\* The signature lookup, on credentials read from a file.
GmailNext ==
  \/ FromFile
  \/ GetSignatureCall

GmailSpec == Init /\ [][GmailNext]_vars

\* The two decode entry points.
DecodeNext ==
  \/ FromRawFile
  \/ PPFromRawFile

DecodeSpec == Init /\ [][DecodeNext]_vars

\* The pair of pump-probe records.
PairNext ==
  \/ PairConstruct
  \/ PairDfCall

PairSpec == Init /\ [][PairNext]_vars

\* Concurrent readers of the long table of one record.
ReadersNext ==
  \/ ReadersStart
  \/ \E t \in 1..MaxReaders : ReaderLookup(t)
  \/ \E t \in 1..MaxReaders : ReaderLookupAgain(t)
  \/ \E t \in 1..MaxReaders : ReaderCompute(t)
  \/ \E t \in 1..MaxReaders : ReaderStore(t)
  \/ \E t \in 1..MaxReaders : ReaderReturn(t)

ReadersSpec == Init /\ [][ReadersNext]_vars

(***************************************************************************)
(* Properties.                                                             *)
(***************************************************************************)
\* Equality of two records in header, metadata, time, wavelength and the
\* intensity values.
SameRecord(a, b) ==
  /\ a.header = b.header
  /\ a.metadata = b.metadata
  /\ a.time = b.time
  /\ a.wavelength = b.wavelength
  /\ a.intensity.data = b.intensity.data

\* The position of the n-th newline byte of buf after position from, 0 when
\* there are fewer.
RECURSIVE NthNewline(_, _, _)
NthNewline(buf, from, n) ==
  LET nl == {j \in (from + 1)..Len(buf) : buf[j] = 10}
      first == CHOOSE j \in nl : \A j2 \in nl : j <= j2
  IN  IF nl = {} THEN 0
      ELSE IF n = 1 THEN first
      ELSE NthNewline(buf, first, n - 1)

\* A well-formed raw file: a header, four newline-terminated lines, then
\* exactly the intensity block and the two axis blocks.
WellFormedFile(buf) ==
  /\ Len(buf) >= HeaderLen
  /\ NthNewline(buf, HeaderLen, MetadataLines) # 0
  /\ Len(buf) - NthNewline(buf, HeaderLen, MetadataLines)
       = IntensityBlockBytes + (2 * ReadAxisBytes)

FitsU16(rec) == \A i \in 1..Len(rec.intensity.data) : rec.intensity.data[i] <= 65535

HasShape(rec) ==
  /\ Len(rec.time) = TimeResolution
  /\ Len(rec.wavelength) = WavelengthResolution
  /\ Len(rec.intensity.data) = TimeResolution * WavelengthResolution

\* The state after from_raw_file has decoded what to_raw_binary returned.
AfterRoundTrip == result.op = "from_raw_file" /\ origin.prev # <<>>
Encoded == origin.prev[1]

\* C1: a record decoded from a well-formed file, with intensities <= 65535,
\* is reproduced by decode(encode(record)) in header, metadata, time,
\* wavelength and intensity.
RoundTripOfDecoded ==
  (/\ AfterRoundTrip
   /\ Encoded.made = "from_raw_file"
   /\ WellFormedFile(Encoded.buf)
   /\ FitsU16(Encoded.pl))
  => /\ result.exc = ""
     /\ pl # NoPLData
     /\ SameRecord(pl[1], Encoded.pl)

\* C1 happens: a decoded record with multi-byte metadata and a full-width
\* intensity has gone through encode and decode.
RoundTripOfDecodedWitness ==
  /\ AfterRoundTrip
  /\ Encoded.made = "from_raw_file"
  /\ WellFormedFile(Encoded.buf)
  /\ \E i \in 1..Len(Encoded.pl.intensity.data) : Encoded.pl.intensity.data[i] = 65535
  /\ \E j \in 1..MetadataLines : Encoded.pl.metadata[j][1] > 127
  /\ pl # NoPLData

\* C2: a record built from arrays of the format's shape, intensities
\* <= 65535, default header and default (empty) metadata, is reproduced by
\* decode(encode(record)).
RoundTripOfDefaultBuilt ==
  (/\ AfterRoundTrip
   /\ Encoded.made = "PLData"
   /\ HasShape(Encoded.pl)
   /\ FitsU16(Encoded.pl)
   /\ Encoded.pl.header = DefaultHeader
   /\ Encoded.pl.metadata = <<>>)
  => /\ result.exc = ""
     /\ pl # NoPLData
     /\ SameRecord(pl[1], Encoded.pl)

\* C3: decode takes the header from the first 64 bytes, the metadata from
\* the next four lines, the intensity from the next block as little-endian
\* uint16 values widened to uint32, the wavelength from the first floats of
\* the next block and the time from the first floats of the block after it.
DecodeLayout ==
  (/\ result.op = "from_raw_file"
   /\ result.exc = ""
   /\ WellFormedFile(origin.buf))
  => LET buf == origin.buf
         m == NthNewline(buf, HeaderLen, MetadataLines)
         w == m + IntensityBlockBytes
         t == w + ReadAxisBytes
         rec == pl[1]
     IN  /\ rec.header = SubSeq(buf, 1, HeaderLen)
         /\ Len(rec.metadata) = MetadataLines
         /\ \A j \in 1..MetadataLines :
              Utf8Encode(rec.metadata[j]).val
                = SubSeq(buf, IF j = 1 THEN HeaderLen + 1
                              ELSE NthNewline(buf, HeaderLen, j - 1) + 1,
                         NthNewline(buf, HeaderLen, j))
         /\ rec.intensity.dtype = "uint32"
         /\ Len(rec.intensity.data) = TimeResolution * WavelengthResolution
         /\ \A i \in 1..Len(rec.intensity.data) :
              rec.intensity.data[i] = buf[m + (2 * i) - 1] + (256 * buf[m + (2 * i)])
         /\ Len(rec.wavelength) = WavelengthResolution
         /\ \A i \in 1..Len(rec.wavelength) :
              F32Bytes(rec.wavelength[i]) = SubSeq(buf, w + (4 * i) - 3, w + (4 * i))
         /\ Len(rec.time) = TimeResolution
         /\ \A i \in 1..Len(rec.time) :
              F32Bytes(rec.time[i]) = SubSeq(buf, t + (4 * i) - 3, t + (4 * i))

\* C4: for every record, decode(encode(record)) raises nothing, yields each
\* intensity modulo 65536 and reproduces header, metadata, time and
\* wavelength.
RoundTripNarrowsIntensity ==
  AfterRoundTrip
  => /\ result.exc = ""
     /\ pl # NoPLData
     /\ pl[1].header = Encoded.pl.header
     /\ pl[1].metadata = Encoded.pl.metadata
     /\ pl[1].time = Encoded.pl.time
     /\ pl[1].wavelength = Encoded.pl.wavelength
     /\ Len(pl[1].intensity.data) = Len(Encoded.pl.intensity.data)
     /\ \A i \in 1..Len(pl[1].intensity.data) :
          pl[1].intensity.data[i] = Encoded.pl.intensity.data[i] % 65536

\* C5: the long table has len(time) * len(wavelength) rows, and row i
\* (0-based, W = len(wavelength)) holds time[i // W], wavelength[i % W] and
\* intensity[i].
ProjectRows ==
  (/\ result.op = "df"
   /\ Len(pl[1].intensity.data) = Len(pl[1].time) * Len(pl[1].wavelength))
  => LET rec == pl[1]
         W == Len(rec.wavelength)
     IN  /\ result.exc = ""
         /\ Len(result.val) = Len(rec.time) * W
         /\ \A i \in 0..(Len(result.val) - 1) :
              /\ result.val[i + 1].time = rec.time[(i \div W) + 1]
              /\ result.val[i + 1].wavelength = rec.wavelength[(i % W) + 1]
              /\ result.val[i + 1].intensity = rec.intensity.data[i + 1]

\* C5 happens: a table of a record with several distinct times and
\* wavelengths has been read.
ProjectRowsWitness ==
  /\ result.op = "df"
  /\ result.exc = ""
  /\ Len(pl[1].time) >= 2
  /\ Len(pl[1].wavelength) >= 2
  /\ pl[1].time[1] # pl[1].time[2]
  /\ pl[1].wavelength[1] # pl[1].wavelength[2]
  /\ pl[1].intensity.data[1] # pl[1].intensity.data[2]
  /\ Len(result.val) = Len(pl[1].time) * Len(pl[1].wavelength)

(***************************************************************************)
(* Aggregated views, stated on the record's arrays.                        *)
(***************************************************************************)
KeptInvariant(rec) ==
  Len(rec.intensity.data) = Len(rec.time) * Len(rec.wavelength)

\* The time and the wavelength of the 1-based sample i.
TimeOf(rec, i) == rec.time[((i - 1) \div Len(rec.wavelength)) + 1]
WavelengthOf(rec, i) == rec.wavelength[((i - 1) % Len(rec.wavelength)) + 1]

Values(axis) == {F32Key(axis[j]) : j \in 1..Len(axis)}
MinOf(S) == CHOOSE x \in S : \A y \in S : x <= y
MaxOf(S) == CHOOSE x \in S : \A y \in S : y <= x

\* The bounds [lo, hi] in force for the range r over the axis, as numbers.
LoOf(r, axis) == IF r.given THEN F32Key(r.lo) ELSE MinOf(Values(axis))
HiOf(r, axis) == IF r.given THEN F32Key(r.hi) ELSE MaxOf(Values(axis))

RECURSIVE SumData(_, _)
SumData(data, S) ==
  IF S = {} THEN 0
  ELSE LET i == CHOOSE j \in S : TRUE
       IN  data[i] + SumData(data, S \ {i})

\* The samples horizontal(record, r) sums, and those vertical(record, r) sums.
TimeSelected(rec, r) ==
  {i \in 1..Len(rec.intensity.data) :
     /\ LoOf(r, rec.time) <= F32Key(TimeOf(rec, i))
     /\ F32Key(TimeOf(rec, i)) <= HiOf(r, rec.time)}
WavelengthSelected(rec, r) ==
  {i \in 1..Len(rec.intensity.data) :
     /\ LoOf(r, rec.wavelength) <= F32Key(WavelengthOf(rec, i))
     /\ F32Key(WavelengthOf(rec, i)) <= HiOf(r, rec.wavelength)}

\* C6: horizontal returns one row per distinct wavelength, ascending, whose
\* intensity is the sum over the samples of that wavelength with
\* lo <= time <= hi, an omitted range being [min(time), max(time)]; a record
\* of ones sums to len(time) per wavelength.
HorizontalSums ==
  (result.op = "to_hdf" /\ KeptInvariant(pl[1]))
  => LET rec == pl[1]
         r == result.args[1]
         Sel == TimeSelected(rec, r)
         Keys == {F32Key(WavelengthOf(rec, i)) : i \in Sel}
         v == result.val
     IN  /\ result.exc = ""
         /\ Len(v) = Cardinality(Keys)
         /\ Sel # {} => Keys = Values(rec.wavelength)
         /\ ~r.given => Sel = 1..Len(rec.intensity.data)
         /\ \A j \in 1..Len(v) :
              /\ F32Key(v[j].wavelength) \in Keys
              /\ j > 1 => F32Key(v[j - 1].wavelength) < F32Key(v[j].wavelength)
              /\ v[j].intensity
                   = SumData(rec.intensity.data,
                             {i \in Sel : F32Key(WavelengthOf(rec, i))
                                            = F32Key(v[j].wavelength)})
         /\ (/\ ~r.given
             /\ \A i \in 1..Len(rec.intensity.data) : rec.intensity.data[i] = 1
             /\ Cardinality(Values(rec.wavelength)) = Len(rec.wavelength))
            => \A j \in 1..Len(v) : v[j].intensity = Len(rec.time)

\* C6 happens: a range that keeps some times and drops others, over
\* descending wavelengths, has produced two rows with different sums.
HorizontalSumsWitness ==
  /\ result.op = "to_hdf"
  /\ result.exc = ""
  /\ KeptInvariant(pl[1])
  /\ result.args[1].given
  /\ TimeSelected(pl[1], result.args[1]) # {}
  /\ TimeSelected(pl[1], result.args[1]) # 1..Len(pl[1].intensity.data)
  /\ Len(pl[1].wavelength) >= 2
  /\ F32Key(pl[1].wavelength[1]) > F32Key(pl[1].wavelength[2])
  /\ Len(result.val) >= 2
  /\ result.val[1].intensity # result.val[2].intensity

\* C7: vertical and horizontal with a range outside all data values return
\* a view of zero rows and raise nothing.
EmptySelectionEmptyView ==
  (/\ result.op \in {"to_hdf", "to_vdf"}
   /\ KeptInvariant(pl[1])
   /\ result.args[1].given
   /\ IF result.op = "to_hdf"
      THEN TimeSelected(pl[1], result.args[1]) = {}
      ELSE WavelengthSelected(pl[1], result.args[1]) = {})
  => /\ result.exc = ""
     /\ result.val = <<>>

\* The half of C7 that holds: horizontal with a range outside all time
\* values returns zero rows.
EmptySelectionEmptyHorizontal ==
  (/\ result.op = "to_hdf"
   /\ KeptInvariant(pl[1])
   /\ result.args[1].given
   /\ TimeSelected(pl[1], result.args[1]) = {})
  => /\ result.exc = ""
     /\ result.val = <<>>

\* The rows of vertical(record, r) without correction: one per distinct
\* time, ascending, with the sum over the selected samples of that time.
VerticalRows(rec, r, v) ==
  LET Sel == WavelengthSelected(rec, r)
      Keys == {F32Key(TimeOf(rec, i)) : i \in Sel}
  IN  /\ Len(v) = Cardinality(Keys)
      /\ Sel # {} => Keys = Values(rec.time)
      /\ \A j \in 1..Len(v) :
           /\ F32Key(v[j].time) \in Keys
           /\ \E i \in 1..Len(rec.time) : rec.time[i] = v[j].time
           /\ j > 1 => F32Key(v[j - 1].time) < F32Key(v[j].time)
           /\ v[j].intensity
                = RatOfInt(SumData(rec.intensity.data,
                                   {i \in Sel : F32Key(TimeOf(rec, i)) = F32Key(v[j].time)}))

\* C8: vertical with both corrections off returns, for every record, with
\* or without a detectable onset, one row per distinct time, ascending, whose
\* intensity is the sum over lo <= wavelength <= hi, time and intensity
\* uncorrected.
VerticalUncorrected ==
  (/\ result.op = "to_vdf"
   /\ KeptInvariant(pl[1])
   /\ result.args[2] = FALSE
   /\ result.args[3] = FALSE)
  => /\ result.exc = ""
     /\ VerticalRows(pl[1], result.args[1], result.val)

\* What holds of C8: when vertical with both corrections off returns, it
\* returns those rows.
VerticalUncorrectedWhenReturned ==
  (/\ result.op = "to_vdf"
   /\ result.exc = ""
   /\ result.args[2] = FALSE
   /\ result.args[3] = FALSE)
  => VerticalRows(pl[1], result.args[1], result.val)

(***************************************************************************)
(* Offset detection, stated with the mean and the sample variance.         *)
(***************************************************************************)
\* The sample variance (ddof = 1) of a window of at least two values.
SampleVariance(win) ==
  LET w == Len(win)
      S == SumSeq(win)
  IN  Rat(SumSeq([j \in 1..w |-> ((w * win[j]) - S) * ((w * win[j]) - S)]),
          w * w * (w - 1))

\* x > mean(win) + k * std(win), for k >= 0: x - mean is positive and its
\* square exceeds k^2 times the variance.
ExceedsMeanPlusKStd(x, win, k) ==
  /\ Len(win) >= 2
  /\ LET d == RatSub(RatOfInt(x), Rat(SumSeq(win), Len(win)))
         var == SampleVariance(win)
     IN  /\ d.num > 0
         /\ d.num * d.num * var.den > k * k * var.num * d.den * d.den

\* The 0-based indices i such that sample i + 3 exists, its window of
\* `window` samples is complete, and it exceeds mean + k * std of that window.
Candidates(x, window, k) ==
  {i \in 0..(Len(x) - 1) :
     /\ i + 3 <= Len(x) - 1
     /\ i + 3 >= window - 1
     /\ ExceedsMeanPlusKStd(x[i + 4], SubSeq(x, i + 5 - window, i + 4), k)}

DetectorCalled == result.op \in {"get_offset_index", "_get_offset_index_for_vdf"}
Series == Column(ppdata[1].df, "intensity")

\* C9: find_offset_index returns the smallest index i such that sample i+3
\* exists and exceeds mean + k*std over the complete window ending there;
\* the streak-camera and the pump-probe corrector return the same index for
\* the same series.
OffsetIndexIsFirstExceedance ==
  DetectorCalled
  => LET Cand == Candidates(Series, result.args[1], result.args[2])
         other == IF result.op = "get_offset_index"
                  THEN GetOffsetIndexForVdf(Series, result.args[1], result.args[2])
                  ELSE GetOffsetIndex(ppdata[1], result.args[1], result.args[2])
     IN  /\ Cand # {} => result.exc = ""
         /\ result.exc = "" => result.val \in Cand /\ \A j \in Cand : result.val <= j
         /\ other.exc = result.exc
         /\ other.val = result.val

\* C9 happens: a detector has returned an index above 0 out of several
\* candidates.
OffsetIndexWitness ==
  /\ result.op = "get_offset_index"
  /\ result.exc = ""
  /\ result.val >= 1
  /\ Cardinality(Candidates(Series, result.args[1], result.args[2])) >= 2

\* C10: on a series flat before position s that steps up at s, with
\* s >= window - 1, window = 10, k = 2 and at least s + 1 samples,
\* find_offset_index returns s - 3; baseline 0 and a step to 100 at sample 13
\* give 10.
StepFoundThreeBefore ==
  (DetectorCalled /\ result.args = <<10, 2>>)
  => LET x == Series
     IN  /\ \A s \in 9..(Len(x) - 1) :
              (/\ \A j \in 1..s : x[j] = x[1]
               /\ x[s + 1] > x[1])
              => (result.exc = "" /\ result.val = s - 3)
         /\ (Len(x) >= 14 /\ x[14] = 100 /\ \A j \in 1..13 : x[j] = 0)
            => (result.exc = "" /\ result.val = 10)

\* C10 happens: the detector has run with the defaults on baseline 0 with a
\* step to 100 at sample 13.
StepFoundWitness ==
  /\ result.op = "get_offset_index"
  /\ result.args = <<10, 2>>
  /\ Len(Series) >= 14
  /\ Series[14] = 100
  /\ \A j \in 1..13 : Series[j] = 0
  /\ result.val = 10

(***************************************************************************)
(* Offset correction, stated on the uncorrected table and the onset.       *)
(***************************************************************************)
VdfCalled == result.op = "to_vdf"
CsvCalled == result.op = "PompProbeData.from_raw_file"

\* The table the same call gives with both corrections off.
UncorrectedVdf == ToVdf(pl[1], result.args[1], FALSE, FALSE).val
UncorrectedCsv == PPFromRawBuffer(result.args[1].data, result.args[2]).val[1].df

\* The columns of a vertical view as numbers: its times are integer-valued.
VdfTimes(v) == [j \in 1..Len(v) |-> RatOfInt(F32ToInt(v[j].time))]
VdfIntensities(v) == [j \in 1..Len(v) |-> v[j].intensity]

\* The onset of an uncorrected intensity column (of fractions with
\* denominator 1), by the defaults window = 10 and k = 2.
OnsetOf(intensity) ==
  MinOf(Candidates([j \in 1..Len(intensity) |-> intensity[j].num], 10, 2))

\* now is was with was[i] (0-based i) subtracted from every value.
ShiftedBy(was, now, i) ==
  /\ Len(now) = Len(was)
  /\ \A j \in 1..Len(was) :
       now[j].den * ((was[j].num * was[i + 1].den) - (was[i + 1].num * was[j].den))
         = now[j].num * was[j].den * was[i + 1].den
  /\ now[i + 1].num = 0
  /\ \A j, h \in 1..Len(was) : FSub(now[j], now[h]) = FSub(was[j], was[h])

\* C11: whenever time-offset correction is applied (vertical or the CSV
\* decode, auto_time_offset = true) with detected index i, every time is
\* reduced by the original time[i]: afterwards time[i] = 0 and all pairwise
\* time differences are unchanged.
TimeOffsetZeroesOnset ==
  /\ (VdfCalled /\ result.exc = "" /\ result.args[2])
     => ShiftedBy(VdfTimes(UncorrectedVdf), VdfTimes(result.val),
                  OnsetOf(VdfIntensities(UncorrectedVdf)))
  /\ (CsvCalled /\ result.exc = "" /\ result.args[3])
     => ShiftedBy(Column(UncorrectedCsv, "time"), Column(decoded[1].df, "time"),
                  OnsetOf([j \in 1..Len(UncorrectedCsv) |->
                             RatOfInt(UncorrectedCsv[j].intensity)]))

\* C11 happens: vertical has shifted times whose onset time was not 0.
TimeOffsetWitness ==
  /\ VdfCalled
  /\ result.exc = ""
  /\ result.args[2]
  /\ F32ToInt(result.val[1].time) < 0
  /\ \E j \in 1..Len(result.val) :
       /\ F32ToInt(result.val[j].time) = 0
       /\ F32ToInt(UncorrectedVdf[j].time) > 0
       /\ j - 1 = OnsetOf(VdfIntensities(UncorrectedVdf))

RECURSIVE FSum(_)
FSum(x) == IF x = <<>> THEN RatOfInt(0) ELSE FAdd(Head(x), FSum(Tail(x)))

\* now is was with the mean of was[0..i-1] subtracted from every value, so
\* that the mean of now[0..i-1] is 0.
BaselineRemoved(was, now, i) ==
  /\ i >= 1
  /\ Len(now) = Len(was)
  /\ \A j \in 1..Len(was) :
       FMul(FSub(was[j], now[j]), RatOfInt(i)) = FSum(Take(was, i))
  /\ FSum(Take(now, i)) = RatOfInt(0)

\* C12: whenever intensity-offset correction is applied (auto_intensity_offset
\* = true) with detected index i, the constant subtracted from every
\* intensity is the mean of the samples at positions 0..i-1, so afterwards
\* the mean intensity of the samples strictly before i is 0.
IntensityOffsetRemovesBaseline ==
  /\ (VdfCalled /\ result.exc = "" /\ result.args[3])
     => BaselineRemoved(VdfIntensities(UncorrectedVdf), VdfIntensities(result.val),
                        OnsetOf(VdfIntensities(UncorrectedVdf)))
  /\ (CsvCalled /\ result.exc = "" /\ result.args[4])
     => BaselineRemoved([j \in 1..Len(UncorrectedCsv) |->
                           RatOfInt(UncorrectedCsv[j].intensity)],
                        Column(decoded[1].df, "intensity"),
                        OnsetOf([j \in 1..Len(UncorrectedCsv) |->
                                   RatOfInt(UncorrectedCsv[j].intensity)]))

\* C12 happens: the CSV decode has removed a baseline that was not flat,
\* leaving fractions.
IntensityOffsetWitness ==
  /\ CsvCalled
  /\ result.exc = ""
  /\ result.args[4]
  /\ \E j, h \in 1..OnsetOf([q \in 1..Len(UncorrectedCsv) |->
                               RatOfInt(UncorrectedCsv[q].intensity)]) :
       /\ decoded[1].df[j].intensity.num < 0
       /\ decoded[1].df[h].intensity.num > 0
       /\ decoded[1].df[j].intensity.den > 1

\* C13: with both flags true, the time column equals the one produced with
\* only auto_time_offset and the intensity column the one produced with only
\* auto_intensity_offset.
CorrectionsIndependent ==
  /\ (VdfCalled /\ result.exc = "" /\ result.args[2] /\ result.args[3])
     => LET t == ToVdf(pl[1], result.args[1], TRUE, FALSE)
            i == ToVdf(pl[1], result.args[1], FALSE, TRUE)
        IN  /\ t.exc = "" /\ i.exc = ""
            /\ Column(result.val, "time") = Column(t.val, "time")
            /\ Column(result.val, "intensity") = Column(i.val, "intensity")
  /\ (CsvCalled /\ result.exc = "" /\ result.args[3] /\ result.args[4])
     => LET t == PPFromRawFileCall(result.args[1], result.args[2], TRUE, FALSE)
            i == PPFromRawFileCall(result.args[1], result.args[2], FALSE, TRUE)
        IN  /\ t.exc = "" /\ i.exc = ""
            /\ Column(decoded[1].df, "time") = Column(t.val[1].df, "time")
            /\ Column(decoded[1].df, "intensity") = Column(i.val[1].df, "intensity")

\* C13 happens: the CSV decode has applied both corrections, and each has
\* changed its column.
CorrectionsIndependentWitness ==
  /\ CsvCalled
  /\ result.exc = ""
  /\ result.args[3]
  /\ result.args[4]
  /\ Column(decoded[1].df, "time") # Column(UncorrectedCsv, "time")
  /\ \E j \in 1..Len(decoded[1].df) : decoded[1].df[j].intensity.den > 1

\* A file of the instrument read as it was written: 18 lines of preamble,
\* the line of names, then one line per reading.
WellFormedCsv(arg, encoding) ==
  /\ arg.type \in {"str", "BufferedIOBase"}
  /\ arg.data.encoding = (IF encoding = "None" THEN "cp932" ELSE encoding)
  /\ Len(arg.data.lines) >= 19
  /\ \A j \in 1..18 : arg.data.lines[j].kind = "text"
  /\ arg.data.lines[19] = NamesLine
  /\ \A j \in 20..Len(arg.data.lines) : arg.data.lines[j].kind = "data"

\* The table has one row per reading, in file order, with
\* time = position / C = position * 100 / 3 and intensity = reading * 1000.
PlainCsvTable(file, df) ==
  /\ Len(df) = Len(file.lines) - 19
  /\ \A j \in 1..Len(df) :
       LET x == file.lines[19 + j].cells[1]
           mv == file.lines[19 + j].cells[2]
       IN  /\ df[j].time.num * 3 * x.den = x.num * 100 * df[j].time.den
           /\ df[j].time.den > 0
           /\ df[j].intensity = RatOfInt(mv * 1000)

\* C14: the CSV decode with both corrections off returns, for every
\* well-formed input, one row per data row, in file order, with
\* time = position / C and intensity = reading * 1000, whether or not the
\* series has a detectable onset.
CsvUncorrected ==
  (/\ CsvCalled
   /\ WellFormedCsv(result.args[1], result.args[2])
   /\ result.args[3] = FALSE
   /\ result.args[4] = FALSE)
  => /\ result.exc = ""
     /\ PlainCsvTable(result.args[1].data, decoded[1].df)

\* What holds of C14: when the decode with both corrections off returns, it
\* returns that table.
CsvUncorrectedWhenReturned ==
  (/\ CsvCalled
   /\ WellFormedCsv(result.args[1], result.args[2])
   /\ result.exc = ""
   /\ result.args[3] = FALSE
   /\ result.args[4] = FALSE)
  => PlainCsvTable(result.args[1].data, decoded[1].df)

(***************************************************************************)
(* The pair table.                                                         *)
(***************************************************************************)
PairDfCalled == result.op = "pair.df"

\* C15: derive_polarization joins RR and RL by row position: row i has
\* time = RR.time[i], RR = RR.intensity[i], RL = RL.intensity[i] and
\* SpinPolarization = (RR - RL) / (RR + RL) * 100 (100/3 for RR = 10,
\* RL = 5); a row with RR + RL = 0 gets a non-finite value, and no error is
\* raised.
PolarizationByRow ==
  PairDfCalled
  => LET rr == pair[1].RR.df
         rl == pair[1].RL.df
         v == result.val
     IN  /\ result.exc = ""
         /\ Len(v) >= Len(rr) /\ Len(v) >= Len(rl)
         /\ Len(v) = Len(rr) \/ Len(v) = Len(rl)
         /\ \A j \in 1..Len(v) :
              (j <= Len(rr) /\ j <= Len(rl))
              => LET a == rr[j].intensity.num
                     b == rl[j].intensity.num
                     p == v[j].SpinPolarization
                 IN  /\ v[j].time = rr[j].time
                     /\ v[j].RR = rr[j].intensity
                     /\ v[j].RL = rl[j].intensity
                     /\ a + b # 0 => (p.den > 0 /\ p.num * (a + b) = (a - b) * 100 * p.den)
                     /\ a + b = 0 => p.den = 0
                     /\ (a = 10 /\ b = 5) => p = [num |-> 100, den |-> 3]

\* C15 happens: the pair table holds a row with RR = 10, RL = 5 and the
\* polarization 100/3, and a row with RR + RL = 0 and a non-finite value.
PolarizationWitness ==
  /\ PairDfCalled
  /\ \E j, h \in 1..Len(result.val) :
       /\ result.val[j].RR = RatOfInt(10)
       /\ result.val[j].RL = RatOfInt(5)
       /\ result.val[j].SpinPolarization = [num |-> 100, den |-> 3]
       /\ result.val[h].RR = RatOfInt(5)
       /\ result.val[h].RL = RatOfInt(0 - 5)
       /\ result.val[h].SpinPolarization.den = 0

(***************************************************************************)
(* The decode entry points.                                                *)
(***************************************************************************)
\* The type of the argument the last decode was given.
DecodeArgType ==
  IF result.op = "from_raw_file" THEN result.args[1] ELSE result.args[1].type

BinaryDecodeNeverRaises ==
  (result.op = "from_raw_file" /\ result.args[1] \in {"str", "BufferedIOBase"})
  => (result.exc = "" /\ pl # NoPLData)

\* What holds of C17: the decode raises nothing but ValueError (a block whose
\* length is no multiple of the item size) and UnicodeDecodeError (metadata
\* that is not UTF-8), and a record it returns has arrays no longer than the
\* format's.
BinaryDecodeRaisesOnlyThese ==
  (result.op = "from_raw_file" /\ result.args[1] \in {"str", "BufferedIOBase"})
  => /\ result.exc \in {"", "ValueError", "UnicodeDecodeError"}
     /\ result.exc = ""
        => /\ pl # NoPLData
           /\ Len(pl[1].intensity.data) <= TimeResolution * WavelengthResolution
           /\ Len(pl[1].wavelength) <= WavelengthResolution
           /\ Len(pl[1].time) <= TimeResolution

\* C18: every record that exists, decoded from any buffer or constructed
\* from arrays, satisfies len(intensity) = len(time) * len(wavelength).
RecordKeepsInvariant ==
  pl # NoPLData => KeptInvariant(pl[1])

\* What holds of C18: a record decoded from a file that has the whole
\* intensity block and both axis blocks satisfies the invariant.
WholeFileKeepsInvariant ==
  (/\ pl # NoPLData
   /\ origin.made = "from_raw_file"
   /\ Len(origin.buf) >= HeaderLen + IntensityBlockBytes + (2 * ReadAxisBytes)
   /\ WellFormedFile(origin.buf))
  => KeptInvariant(pl[1])

(***************************************************************************)
(* Readers of one record.                                                  *)
(***************************************************************************)
\* project(record): row i is (time[i div W], wavelength[i mod W], intensity[i]).
Project(rec) ==
  [i \in 1..Len(rec.intensity.data) |->
     [time |-> TimeOf(rec, i), wavelength |-> WavelengthOf(rec, i),
      intensity |-> rec.intensity.data[i]]]

Arrays(rec) == <<rec.time, rec.wavelength, rec.intensity>>

\* Every table a reader holds or has been returned is project(record), and
\* so is the cached one.
ReadersSeeProjection ==
  readers # NoReaders
  => /\ pl[1].df.computed => pl[1].df.rows = Project(pl[1])
     /\ \A t \in 1..MaxReaders :
          /\ readers[t].pc # "raised"
          /\ readers[t].pc \in {"computed", "return"} => readers[t].val = Project(pl[1])
          /\ \A h \in 1..Len(readers[t].seen) : readers[t].seen[h] = Project(pl[1])

\* No step of a reader changes time, wavelength or intensity.
ReadersKeepArrays ==
  (readers # NoReaders) => (Arrays(pl'[1]) = Arrays(pl[1]))

\* C19: under any interleaving of concurrent readers of one record, also
\* when they race on the first access to the lazily computed long table,
\* every reader observes project(record), repeated accesses return the same
\* content, and time, wavelength and intensity are never changed.
ConcurrentReadersAgree == [] ReadersSeeProjection /\ [][ReadersKeepArrays]_vars

\* C19 happens: two readers missed on the first access, one has stored its
\* table and been returned it, the other is about to store its own.
ConcurrentReadersWitness ==
  /\ readers # NoReaders
  /\ pl[1].df.computed
  /\ \E t, u \in 1..MaxReaders :
       /\ t # u
       /\ readers[t].pc = "computed"
       /\ Len(readers[u].seen) >= 1
       /\ Len(readers[t].seen) = 0

(***************************************************************************)
(* Frame of the aggregations.                                              *)
(***************************************************************************)
\* The call the step has made, made once more on the record as it is now.
SameCallAgain ==
  IF result'.op = "to_hdf"
  THEN ToHdf(pl'[1], result'.args[1])
  ELSE ToVdf(pl'[1], result'.args[1], result'.args[2], result'.args[3])

\* A step that calls horizontal or vertical keeps the arrays and a cached
\* long table, caches nothing but project(record), and the same call made
\* again returns the same.
AggregationKeepsRecord ==
  (result'.op \in {"to_hdf", "to_vdf"} /\ result' # result)
  => /\ Arrays(pl'[1]) = Arrays(pl[1])
     /\ pl[1].df.computed => pl'[1].df = pl[1].df
     /\ pl'[1].df.computed => pl'[1].df.rows = Project(pl[1])
     /\ SameCallAgain.exc = result'.exc
     /\ SameCallAgain.val = result'.val
     /\ SameCallAgain.self = pl'[1]

\* C20: after any sequence of horizontal and vertical calls on a record (any
\* ranges, any flags) the cached long table and the time, wavelength and
\* intensity arrays are unchanged: offset correction modifies only the
\* returned view, so repeating a call returns the same result.
AggregationsLeaveRecord == [][AggregationKeepsRecord]_vars

\* C20 happens: vertical has returned a view with times shifted below 0
\* while the cached long table still holds the times of the record.
AggregationsLeaveRecordWitness ==
  /\ VdfCalled
  /\ result.exc = ""
  /\ result.args[2]
  /\ result.args[3]
  /\ F32ToInt(result.val[1].time) < 0
  /\ pl[1].df.computed
  /\ pl[1].df.rows = Project(pl[1])
  /\ F32ToInt(pl[1].df.rows[1].time) > 0

(***************************************************************************)
(* A series without an onset.                                              *)
(***************************************************************************)
\* The intensity column vertical(record, r) aggregates, stated on the
\* record's arrays: per distinct time, ascending, the sum over the samples
\* of that time whose wavelength is selected.
VerticalSums(rec, r) ==
  LET Sel == WavelengthSelected(rec, r)
      keys == SortedSeq({F32Key(TimeOf(rec, i)) : i \in Sel})
  IN  [j \in 1..Len(keys) |->
         SumData(rec.intensity.data, {i \in Sel : F32Key(TimeOf(rec, i)) = keys[j]})]

\* The readings of a well-formed file as the decode scales them.
CsvIntensities(file) ==
  [j \in 1..(Len(file.lines) - 19) |-> file.lines[19 + j].cells[2] * 1000]

NoSampleFlagged(x) == Candidates(x, 10, 2) = {}

\* C23: when no sample of the series is flagged (a constant series, a series
\* shorter than the window), the operation that called find_offset_index,
\* vertical or the CSV decode, ends with an error and yields no table,
\* whatever auto_time_offset and auto_intensity_offset are.
NoOnsetNoTable ==
  /\ (/\ VdfCalled
      /\ KeptInvariant(pl[1])
      /\ NoSampleFlagged(VerticalSums(pl[1], result.args[1])))
     => (result.exc = "IndexError" /\ result.val = <<>>)
  /\ (/\ CsvCalled
      /\ WellFormedCsv(result.args[1], result.args[2])
      /\ NoSampleFlagged(CsvIntensities(result.args[1].data)))
     => (result.exc = "IndexError" /\ decoded = NoPompProbeData)

\* C23 happens: vertical with both corrections off has ended with an error
\* on a constant series longer than the window.
NoOnsetNoTableWitness ==
  /\ VdfCalled
  /\ KeptInvariant(pl[1])
  /\ result.args[2] = FALSE
  /\ result.args[3] = FALSE
  /\ Len(VerticalSums(pl[1], result.args[1])) > 10
  /\ \A j \in 1..Len(VerticalSums(pl[1], result.args[1])) :
       VerticalSums(pl[1], result.args[1])[j] = VerticalSums(pl[1], result.args[1])[1]
  /\ result.exc = "IndexError"
  /\ result.val = <<>>

(***************************************************************************)
(* The range of the detected index.                                        *)
(***************************************************************************)
\* C24: whenever find_offset_index returns an index i for a series of n
\* samples with window w, w - 4 <= i <= n - 4, and i >= 6 with the default
\* window 10; so the samples before i that the baseline is fitted to are
\* not empty and time[i] exists.
OffsetIndexInRange ==
  (DetectorCalled /\ result.exc = "")
  => LET i == result.val
         n == Len(Series)
         w == result.args[1]
     IN  /\ w - 4 <= i
         /\ 0 <= i
         /\ i <= n - 4
         /\ w = 10 => (/\ i >= 6
                       /\ Take(Series, i) # <<>>
                       /\ i + 1 \in DOMAIN ppdata[1].df)

\* C24 happens: with the default window the detector has returned the least
\* index the window allows, and on another series the greatest index.
OffsetIndexInRangeWitness ==
  /\ result.op = "_get_offset_index_for_vdf"
  /\ result.exc = ""
  /\ result.args[1] = 10
  /\ result.val = Len(Series) - 4

(***************************************************************************)
(* The corrections run twice.                                              *)
(***************************************************************************)
VdfAgain == result.op = "to_vdf again"
CsvAgain == result.op = "from_raw_file again"

\* The uncorrected tables of the first call, from the record and the file.
FirstVdf == ToVdf(pl[1], result.args[1][1], FALSE, FALSE).val
FirstCsv == PPFromRawBuffer(result.args[1][1].data, result.args[1][2]).val[1].df

\* i is the least of the set S.
IsLeastOf(i, S) == i \in S /\ \A j \in S : i <= j

\* i is the onset of the uncorrected table v, by the defaults.
Numerators(col) == [j \in 1..Len(col) |-> col[j].num]
IsOnsetOfVdf(i, v) == IsLeastOf(i, Candidates(Numerators(Column(v, "intensity")), 10, 2))
IsOnsetOfCsv(i, df) == IsLeastOf(i, Candidates(Column(df, "intensity"), 10, 2))

\* C25: offset correction is idempotent.  The index detected on a table
\* whose intensities had a constant subtracted and whose times were shifted
\* is the index detected on the uncorrected table, and detection with both
\* corrections on a table that was corrected with both leaves its times and
\* intensities as they are.
CorrectionIdempotent ==
  /\ VdfAgain
     => /\ result.exc = ""
        /\ IsOnsetOfVdf(result.val[1], FirstVdf)
        /\ (result.args[1][2] /\ result.args[1][3]) => result.val[2] = result.args[2]
  /\ CsvAgain
     => /\ result.exc = ""
        /\ IsOnsetOfCsv(result.val[1], FirstCsv)
        /\ (result.args[1][3] /\ result.args[1][4]) => result.val[2] = result.args[2]

\* C25 happens: a vertical view whose baseline mean was not an integer and
\* whose onset time was not 0 has been corrected a second time.
CorrectionIdempotentWitness ==
  /\ VdfAgain
  /\ result.args[1][2]
  /\ result.args[1][3]
  /\ result.exc = ""
  /\ result.val[1] > 6
  /\ \E j \in 1..Len(result.val[2]) : result.val[2][j].intensity.den > 1
  /\ F32ToInt(FirstVdf[result.val[1] + 1].time) # 0
  /\ result.val[2] = result.args[2]

(***************************************************************************)
(* Credentials.                                                            *)
(***************************************************************************)
FromFileCalled == result.op = "Credentials.from_file"
NewCalled == result.op = "Credentials.new"

\* The call returned an instance that holds the loaded object.
ReturnedLoaded ==
  /\ result.exc = ""
  /\ credentials = <<[creds |-> result.val[1]]>>
  /\ result.val[1].refresh_token = result.args[1].refresh_token

\* C21: Credentials.from_file, on the credentials it loaded: valid ones are
\* returned and refresh is never called; invalid ones with a refresh token
\* are refreshed exactly once and then returned; invalid ones without a
\* refresh token raise ValueError and refresh is never called.
FromFileProtocol ==
  (FromFileCalled /\ result.args[1].exists)
  => /\ result.args[1].valid
        => (ReturnedLoaded /\ result.val[1].refreshes = 0)
     /\ (~result.args[1].valid /\ result.args[1].refresh_token \notin {"None", ""})
        => (ReturnedLoaded /\ result.val[1].refreshes = 1)
     /\ (~result.args[1].valid /\ result.args[1].refresh_token \in {"None", ""})
        => (result.exc = "ValueError" /\ result.val[1].refreshes = 0)

\* C21 happens: invalid credentials with a refresh token were loaded,
\* refreshed once and returned.
FromFileProtocolWitness ==
  /\ FromFileCalled
  /\ result.args[1].exists
  /\ ~result.args[1].valid
  /\ result.args[1].refresh_token = "refresh_token"
  /\ result.exc = ""
  /\ result.val[1].refreshes = 1
  /\ credentials # NoCredentials

\* C26: calls of Credentials.new do not influence each other: after any
\* earlier calls with custom values, a call with an empty client_id (or
\* client_secret) builds its flow with the built-in value of CLIENT_CONFIG,
\* and the module-level CLIENT_CONFIG is never modified.
NewCallsIndependent ==
  /\ dicts[1].client_id = "629905107772-2rq0b441g8k6v428ul0hvhlp0p8pq09a.apps.googleusercontent.com"
  /\ dicts[1].client_secret = "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"
  /\ NewCalled
     => /\ result.args[1] = ""
           => result.val[1].client_config.installed.client_id
                = "629905107772-2rq0b441g8k6v428ul0hvhlp0p8pq09a.apps.googleusercontent.com"
        /\ result.args[2] = ""
           => result.val[1].client_config.installed.client_secret
                = "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"

\* What holds of C26: a value that is given is the value the flow is
\* built with, whatever the earlier calls were.
NewUsesGivenValues ==
  NewCalled
  => /\ result.args[1] # ""
        => result.val[1].client_config.installed.client_id = result.args[1]
     /\ result.args[2] # ""
        => result.val[1].client_config.installed.client_secret = result.args[2]
     /\ result.val[1].scopes = SCOPES
     /\ result.val[1].ran = (IF result.args[3] THEN "run_local_server" ELSE "run_console")

(***************************************************************************)
(* The signature lookup.                                                   *)
(***************************************************************************)
SignatureCalled == result.op = "get_signature"

\* The aliases of the response that the address names: those of that
\* address, or those marked default when the address is None.
Listed(response) == IF "sendAs" \in DOMAIN response THEN response.sendAs ELSE <<>>
Wanted(list, address) ==
  {j \in 1..Len(list) :
     IF address = "None"
     THEN "isDefault" \in DOMAIN list[j] /\ list[j].isDefault
     ELSE list[j].sendAsEmail = address}
SignatureIn(alias) == IF "signature" \in DOMAIN alias THEN alias.signature ELSE ""

ReturnsWanted(list, address) ==
  /\ result.exc = ""
  /\ \E j \in Wanted(list, address) : result.val = SignatureIn(list[j])

\* C22: get_signature returns the signature of the send-as alias whose
\* address was given, or of the alias marked default when address is None,
\* and raises ValueError whenever the service's list has no such alias.
SignatureOrValueError ==
  SignatureCalled
  => IF Wanted(Listed(result.args[1]), result.args[2]) = {}
     THEN result.exc = "ValueError"
     ELSE ReturnsWanted(Listed(result.args[1]), result.args[2])

\* What holds of C22: the signature is returned when the alias is listed,
\* ValueError is raised for an address that is not, and IndexError when
\* address is None and no alias is marked default.
SignatureOrSomeError ==
  SignatureCalled
  => IF Wanted(Listed(result.args[1]), result.args[2]) = {}
     THEN result.exc = (IF result.args[2] = "None" THEN "IndexError" ELSE "ValueError")
     ELSE ReturnsWanted(Listed(result.args[1]), result.args[2])

====
